---- MODULE Spec2Model ----
(***************************************************************************)
(* Model of the temporal, hierarchical record store of datacentric (py):   *)
(* MongoDataSource.create_ordered_object_id and TemporalMongoDataSource     *)
(* (save_many, delete, load_or_null_by_key, dataset creation and caches).   *)
(*                                                                         *)
(* ObjectIds are modelled as the integers 0..MaxId in their natural order;  *)
(* 0 is DataSource._empty_id (the root dataset).  Python None is None.      *)
(*                                                                         *)
(* The native generator ObjectId() never produces an id twice.  Within one  *)
(* call of the data source it counts upwards: from position n it yields the *)
(* least id >= n never produced before.  Between two calls the wall clock   *)
(* it follows may be set forwards (ids are skipped) or backwards (skipped    *)
(* ids are produced after greater ones), so every call starts from a        *)
(* position n of the environment's choosing.                                *)
(*                                                                         *)
(* A method that uses the result of a call more than once is written as the *)
(* call handed to an operator that takes the result as a parameter.         *)
(***************************************************************************)
EXTENDS Integers, Sequences, FiniteSets, TLC

\* ---------------------------------------------------------------- bounds
MaxId == 6          \* ObjectIds are 0..MaxId
MaxGap == 1         \* ids the generator has skipped and may still produce
MaxRetry == 2       \* iterations of the retry loop that are followed
MaxBatch == 2       \* records in one save_many
NumKeys == 1        \* distinct record keys
NumNames == 1       \* distinct dataset names
NumThreads == 2     \* threads of the concurrent allocator specification
MaxForeign == 1     \* documents inserted by other data source objects
MaxQueries == 3     \* query objects followed
MaxRuns == 2        \* as_iterable calls followed on one query
MaxDrops == 2       \* delete_db calls followed
MaxDepth == 4       \* nested get_data_set_lookup_list calls the interpreter allows

\* ------------------------------------------------------ program constants
EmptyId == 0        \* DataSource._empty_id
None == -1          \* Python None where an ObjectId is expected

Ids == 0..MaxId
ObjectIds == 1..MaxId
Keys == 1..NumKeys
Names == 1..NumNames
Threads == 1..NumThreads
RecordTypes == {"BaseSample"}

VARIABLES
    store,                  \* documents of all collections of the database
    prev_object_id,         \* MongoDataSource.__prev_object_id
    readonly,               \* DataSource.readonly
    cutoff_time,            \* TemporalMongoDataSource.cutoff_time
    data_set_dict,          \* __data_set_dict: name -> dataset id
    data_set_parent_dict,   \* __data_set_parent_dict: dataset id -> parent id
    data_set_detail_dict,   \* __data_set_detail_dict: dataset id -> detail
    import_dict,            \* __import_dict: dataset id -> lookup list
    log,                    \* context.log, the entries appended so far
    pc,                     \* "idle", or "spin": inside the retry loop
    result,                 \* local `result` of create_ordered_object_id
    retry_count,            \* local `retry_count` of create_ordered_object_id
    draws,                  \* ObjectId() calls made by the running call
    returned,               \* ids returned by create_ordered_object_id, in order
    last_saved,             \* the last save_many that returned: what it left on its records
    assigned,               \* ids put on records by save_many and delete, in order
    deleted,                \* <<key, dataset>> of delete calls not followed by a save
    data_set_imports,       \* dataset id -> imports of the DataSet record saved under it
    foreign,                \* _id of the documents other data source objects inserted
    tpc, tresult, tretry,   \* per-thread position and locals (SpecThreads)
    queries,                \* the TemporalMongoQuery objects made so far
    sort_dicts,             \* the dicts of their $sort stages, by reference
    chain,                  \* per query, the builder calls that produced it
    last_call,              \* the last builder call: what it found and did
    iterated,               \* the last as_iterable call: what it ran and gave
    non_temporal,           \* DataSource.non_temporal (None reads as FALSE)
    instance_type,          \* MongoDataSource.__instance_type
    dropped,                \* the last delete_db call: what it found and did
    rec_key,                \* the key elements of a record r
    the_key,                \* r.to_key() and its value, once taken
    populated               \* the fresh key populate_from_string has filled

vars == << store, prev_object_id, readonly, cutoff_time, data_set_dict,
           data_set_parent_dict, data_set_detail_dict, import_dict, log,
           pc, result, retry_count, draws, returned, last_saved,
           assigned, deleted, data_set_imports, foreign, tpc, tresult,
           tretry, queries, sort_dicts, chain, last_call, iterated,
           non_temporal, instance_type, dropped, rec_key, the_key,
           populated >>

storeVars == << store, data_set_dict, data_set_parent_dict,
                data_set_detail_dict, import_dict, last_saved, assigned, deleted,
                data_set_imports, foreign >>
threadVars == << tpc, tresult, tretry >>
flagVars == << readonly, cutoff_time >>
dataSetVars == << data_set_dict, data_set_parent_dict, data_set_imports >>
callVars == << pc, result, retry_count, draws >>
queryVars == << queries, sort_dicts, chain, last_call, iterated >>
sourceVars == << non_temporal, instance_type, dropped >>
keyVars == << rec_key, the_key, populated >>

\* ---------------------------------------------------------------- helpers
Put(f, k, v) == [x \in DOMAIN f \cup {k} |-> IF x = k THEN v ELSE f[x]]

EmptyMap == [x \in {} |-> 0]

Range(s) == {s[i] : i \in DOMAIN s}

\* ------------------------------------------------- the native generator
\* Every id ObjectId() has produced so far: the ids given to stored
\* documents, the ids create_ordered_object_id returned, and the candidates
\* held by calls that are still inside create_ordered_object_id.
Used ==
    {d.id : d \in store} \cup Range(returned)
        \cup (IF pc = "spin" THEN {result} ELSE {})
        \cup {tresult[t] : t \in {u \in Threads : tpc[u] # "idle"}}

Unused(n, used) == {x \in n..MaxId : x \notin used}

\* bson.ObjectId(): the next id of the generator standing at n.
ObjectId(n, used) ==
    CHOOSE x \in Unused(n, used) : \A y \in Unused(n, used) : x <= y

CanDraw(n, used, count) == Cardinality(Unused(n, used)) >= count

\* `count` successive ObjectId() calls.
RECURSIVE DrawSeq(_, _, _)
DrawNext(x, used, count) == << x >> \o DrawSeq(x + 1, used \cup {x}, count - 1)

DrawSeq(n, used, count) ==
    IF count = 0 THEN << >> ELSE DrawNext(ObjectId(n, used), used, count)

\* ------------------------------------------------------------- documents
\* A stored document: _id, _dataset, _key, _t and the fields the model
\* follows (Imports of a DataSet; ReadOnly, CutoffTime and ImportsCutoffTime
\* of a DataSetDetail).  coll is the collection, named after the root type.
Doc(coll, id, dataset, key, t, imports, read_only, cutoff, imports_cutoff) ==
    [coll |-> coll, id |-> id, dataset |-> dataset, key |-> key, t |-> t,
     imports |-> imports, read_only |-> read_only, cutoff |-> cutoff,
     imports_cutoff |-> imports_cutoff]

NoDoc == Doc("", None, None, 0, "None", {}, FALSE, None, None)

\* serialize(): the slots of the classes before Record in the MRO, plus
\* _t, _dataset and _key.  id_ is a slot of Record, so the serialized
\* document carries no _id and the driver gives it a native ObjectId when it
\* inserts it (doc_id).
Serialize(coll, rec, doc_id) ==
    Doc(coll, doc_id, rec.data_set, rec.key, rec.t, rec.imports,
        rec.read_only, rec.cutoff, rec.imports_cutoff)

\* every document deserializes, ObjectId elements included
Deserializable_All(d) == TRUE

\* deserialize(): _deserialize_primitive has no branch for ObjectId, so a
\* document with an ObjectId element (DataSetDetail.data_set_id, a non-empty
\* DataSet.imports) raises TypeError.
Deserializable(d) ==
    CASE d.t = "DataSetDetail" -> FALSE
      [] d.t = "DataSet" -> d.imports = {}
      [] OTHER -> TRUE

\* the record a document deserializes to
Deserialize(d) ==
    [key |-> d.key, t |-> d.t, id_ |-> d.id, data_set |-> d.dataset,
     imports |-> d.imports, read_only |-> d.read_only, cutoff |-> d.cutoff,
     imports_cutoff |-> d.imports_cutoff]

\* isinstance(result, type_)
IsInstance(t, type_) ==
    \/ t = type_
    \/ t = "DerivedSample" /\ type_ = "BaseSample"

\* ClassInfo.get_record_from_key(type(key_)): the record type a key type
\* belongs to.  load_or_null_by_key and delete call it; class_info.py holds
\* no definition of it (only get_key_from_record, its inverse), so it is
\* taken to be what its name and its callers say: for the key type of a
\* collection, the root record type the collection is named after.
RecordTypeOf(coll) == coll

\* ----------------------------------------------------------- read paths
\* The caches a read may fill: c.dd is __data_set_detail_dict, c.imp is
\* __import_dict.  Every operator returns the caches as it leaves them, with
\* st = "ok" (or "found", "null" for a load) or the error it raised.  c.depth
\* is the number of get_data_set_lookup_list calls on the stack that went
\* past the cache; a call that would exceed the interpreter's recursion
\* limit raises RecursionError.
Caches == [dd |-> data_set_detail_dict, imp |-> import_dict, depth |-> 0]

\* a call of get_data_set_lookup_list entered
Deeper(c) == [c EXCEPT !.depth = @ + 1]

\* and left, by a return or by an exception
Returned(l) == [l EXCEPT !.c.depth = @ - 1]

NoDetail == NoDoc

Loaded(st, doc, c) == [st |-> st, doc |-> doc, c |-> c]

Detail(st, detail, c) == [st |-> st, detail |-> detail, c |-> c]

Cutoff(st, cutoff, c) == [st |-> st, cutoff |-> cutoff, c |-> c]

Lookup(st, list, c) == [st |-> st, list |-> list, c |-> c]

Final(st, list, cutoff, c) ==
    [st |-> st, list |-> list, cutoff |-> cutoff, c |-> c]

RECURSIVE GetDataSetDetailOrNone(_, _)
RECURSIVE GetCutoffTime(_, _)
RECURSIVE LoadOrNull(_, _, _, _)
RECURSIVE GetDataSetLookupList(_, _)
RECURSIVE FillImports(_, _, _, _)
RECURSIVE BuildDataSetLookupList(_, _)
RECURSIVE ApplyFinalConstraints(_, _)
RECURSIVE LoadOrNullByKey(_, _, _, _)

\* get_cutoff_time: min of self.cutoff_time and the detail's cutoff_time
MinCutoff(source_cutoff, data_set_cutoff) ==
    IF source_cutoff # None /\ data_set_cutoff # None
    THEN IF source_cutoff < data_set_cutoff THEN source_cutoff
         ELSE data_set_cutoff
    ELSE IF source_cutoff = None THEN data_set_cutoff
    ELSE source_cutoff

\* get_cutoff_time, given the detail (g)
CutoffOfDetail(g) ==
    IF g.st # "ok" THEN Cutoff(g.st, None, g.c)
    ELSE Cutoff("ok",
                MinCutoff(cutoff_time,
                          IF g.detail # NoDetail THEN g.detail.cutoff
                          ELSE None),
                g.c)

GetCutoffTime(data_set_id, c) ==
    CutoffOfDetail(GetDataSetDetailOrNone(data_set_id, c))

\* self.__data_set_detail_dict[detail_for] = result; return result
CacheDetail(detail_for, r) ==
    IF r.st \notin {"found", "null"} THEN Detail(r.st, NoDetail, r.c)
    ELSE Detail("ok", r.doc, [r.c EXCEPT !.dd = Put(r.c.dd, detail_for, r.doc)])

\* get_data_set_detail_or_none
GetDataSetDetailOrNone(detail_for, c) ==
    IF detail_for = EmptyId THEN Detail("ok", NoDetail, c)
    ELSE IF detail_for \in DOMAIN c.dd
    THEN Detail("ok", c.dd[detail_for], c)
    ELSE IF detail_for \notin DOMAIN data_set_parent_dict
    THEN Detail("KeyError", NoDetail, c)
    ELSE CacheDetail(detail_for,
                     LoadOrNullByKey("DataSetDetail", detail_for,
                                     data_set_parent_dict[detail_for], c))

Min(S) == CHOOSE x \in S : \A y \in S : x <= y

\* _fill_data_set_lookup_set: result.add(import_id) for the lookup list (l)
\* of one import, then the rest of the imports
FillRest(id_, todo, lookup, l) ==
    IF l.st # "ok" THEN Lookup(l.st, {}, l.c)
    ELSE FillImports(id_, todo, lookup \cup l.list, l.c)

\* one import, the test for a dataset that imports itself left out
FillOne_NoSelfTest(id_, data_set_id, todo, lookup, c) ==
    IF data_set_id \in lookup THEN FillImports(id_, todo, lookup, c)
    ELSE FillRest(id_, todo, lookup \cup {data_set_id},
                  GetDataSetLookupList(data_set_id, c))

\* _fill_data_set_lookup_set: one import
FillOne(id_, data_set_id, todo, lookup, c) ==
    IF id_ = data_set_id THEN Lookup("SelfImport", {}, c)
    ELSE IF data_set_id \in lookup THEN FillImports(id_, todo, lookup, c)
    ELSE FillRest(id_, todo, lookup \cup {data_set_id},
                  GetDataSetLookupList(data_set_id, c))

\* the loop of _fill_data_set_lookup_set over data_set_record.imports (todo
\* is what is left of it, taken in increasing order)
FillImports(id_, todo, lookup, c) ==
    IF todo = {} THEN Lookup("ok", lookup, c)
    ELSE FillOne(id_, Min(todo), todo \ {Min(todo)}, lookup, c)

\* the cutoff not consulted: the record and its imports always contribute
FillDataSetLookupSet_NoCutoff(data_set_record, g) ==
    IF g.st # "ok" THEN Lookup(g.st, {}, g.c)
    ELSE FillImports(data_set_record.id_, data_set_record.imports,
                     {data_set_record.id_}, g.c)

\* _fill_data_set_lookup_set, given the cutoff (g) of the record's dataset
FillDataSetLookupSet(data_set_record, g) ==
    IF g.st # "ok" THEN Lookup(g.st, {}, g.c)
    ELSE IF g.cutoff # None /\ data_set_record.id_ >= g.cutoff
    THEN Lookup("ok", {}, g.c)
    ELSE FillImports(data_set_record.id_, data_set_record.imports,
                     {data_set_record.id_}, g.c)

\* _build_data_set_lookup_list
BuildDataSetLookupList(data_set_record, c) ==
    FillDataSetLookupSet(data_set_record,
                         GetCutoffTime(data_set_record.data_set, c))

\* self.__import_dict[id] = result
CacheLookupList(id, b) ==
    IF b.st # "ok" THEN b ELSE [b EXCEPT !.c.imp = Put(b.c.imp, id, b.list)]

\* get_data_set_lookup_list, given what load_or_null returned (r)
LookupListOfRecord(load_from, r) ==
    IF r.st \notin {"found", "null"} THEN Lookup(r.st, {}, r.c)
    ELSE IF r.st = "null" THEN Lookup("NotFound", {}, r.c)
    ELSE IF r.doc.dataset # EmptyId THEN Lookup("NotInRoot", {}, r.c)
    ELSE CacheLookupList(load_from,
                         BuildDataSetLookupList(Deserialize(r.doc), r.c))

\* get_data_set_lookup_list
GetDataSetLookupList(load_from, c) ==
    IF load_from = EmptyId THEN Lookup("ok", {EmptyId}, c)
    ELSE IF load_from \in DOMAIN c.imp THEN Lookup("ok", c.imp[load_from], c)
    ELSE IF c.depth = MaxDepth THEN Lookup("RecursionError", {}, c)
    ELSE Returned(LookupListOfRecord(load_from,
                                     LoadOrNull(load_from, "DataSet",
                                                "DataSet", Deeper(c))))

\* no $in stage: documents of every dataset pass
MatchDataSet_Any(d, data_set_lookup_list) == TRUE

\* {'$match': {'_dataset': {'$in': data_set_lookup_list}}}
MatchDataSet(d, data_set_lookup_list) == d.dataset \in data_set_lookup_list

\* no cutoff stage: documents of every time pass
MatchCutoff_All(d, cutoff) == TRUE

\* {'$match': {'_id': {'$lte': cutoff_time}}}
MatchCutoff(d, cutoff) == d.id <= cutoff

\* apply_final_constraints, the second stage, given the cutoff (g)
CutoffStage(list, g) ==
    IF g.st # "ok" THEN Final(g.st, {}, None, g.c)
    ELSE Final("ok", list, g.cutoff, g.c)

\* apply_final_constraints, given the lookup list (l)
DataSetStage(load_from, l) ==
    IF l.st # "ok" THEN Final(l.st, {}, None, l.c)
    ELSE CutoffStage(l.list, GetCutoffTime(load_from, l.c))

\* apply_final_constraints: the stages appended to the pipeline
ApplyFinalConstraints(load_from, c) ==
    DataSetStage(load_from, GetDataSetLookupList(load_from, c))

\* a document passes the stages of apply_final_constraints
PassesFinal(d, f) ==
    /\ MatchDataSet(d, f.list)
    /\ (f.cutoff # None => MatchCutoff(d, f.cutoff))

\* [{'$sort': {'_dataset': -1}}, {'$sort': {'_id': -1}}, {'$limit': 1}]:
\* the second $sort stage re-sorts the whole stream by _id alone, so the
\* document that passes the limit is the one with the greatest _id.
FirstAfterSorts(docs) ==
    CHOOSE d \in docs : \A e \in docs : e.id <= d.id

\* load_or_null_by_key, from the first document of the cursor on
ReturnFirst(first, record_type, c) ==
    IF ~Deserializable(first) THEN Loaded("TypeError", NoDoc, c)
    ELSE IF first.t = "DeletedRecord" THEN Loaded("null", NoDoc, c)
    ELSE IF ~IsInstance(first.t, record_type)
    THEN Loaded("TypeMismatch", NoDoc, c)
    ELSE Loaded("found", first, c)

\* load_or_null_by_key, given the documents that pass the $match stages
ReturnOf(docs, record_type, c) ==
    IF docs = {} THEN Loaded("null", NoDoc, c)
    ELSE ReturnFirst(FirstAfterSorts(docs), record_type, c)

\* load_or_null_by_key, given the final constraints (f)
Aggregate(coll, key_value, f) ==
    IF f.st # "ok" THEN Loaded(f.st, NoDoc, f.c)
    ELSE ReturnOf({d \in store : /\ d.coll = coll
                                 /\ d.key = key_value
                                 /\ PassesFinal(d, f)},
                  RecordTypeOf(coll), f.c)

\* load_or_null_by_key
LoadOrNullByKey(coll, key_value, load_from, c) ==
    Aggregate(coll, key_value, ApplyFinalConstraints(load_from, c))

\* load_or_null, given the cutoff (g) of the dataset of the document
ReturnById(id_, d, type_, g) ==
    IF g.st # "ok" THEN Loaded(g.st, NoDoc, g.c)
    ELSE IF g.cutoff # None /\ id_ >= g.cutoff THEN Loaded("null", NoDoc, g.c)
    ELSE IF ~IsInstance(d.t, type_) THEN Loaded("TypeMismatch", NoDoc, g.c)
    ELSE Loaded("found", d, g.c)

\* load_or_null, from the document of the cursor on
ReturnDoc(id_, d, type_, c) ==
    IF ~Deserializable(d) THEN Loaded("TypeError", NoDoc, c)
    ELSE IF d.t = "DeletedRecord" THEN Loaded("null", NoDoc, c)
    ELSE ReturnById(id_, d, type_, GetCutoffTime(d.dataset, c))

\* load_or_null, given the documents with that _id
ReturnDocs(id_, docs, type_, c) ==
    IF docs = {} THEN Loaded("null", NoDoc, c)
    ELSE ReturnDoc(id_, CHOOSE d \in docs : TRUE, type_, c)

\* load_or_null
LoadOrNull(id_, coll, type_, c) ==
    IF cutoff_time # None /\ id_ >= cutoff_time THEN Loaded("null", NoDoc, c)
    ELSE ReturnDocs(id_, {d \in store : d.coll = coll /\ d.id = id_}, type_, c)

\* ------------------------------------------------------------ write paths
Gate(st, c) == [st |-> st, c |-> c]

\* _check_not_readonly, given the detail (g)
CheckDetail(g) ==
    IF g.st # "ok" THEN Gate(g.st, g.c)
    ELSE IF g.detail # NoDetail /\ g.detail.read_only
    THEN Gate("DataSetReadOnly", g.c)
    ELSE IF cutoff_time # None THEN Gate("CutoffTimeSet", g.c)
    ELSE IF g.detail # NoDetail /\ g.detail.cutoff # None
    THEN Gate("DataSetCutoffTimeSet", g.c)
    ELSE Gate("ok", g.c)

\* _check_not_readonly
CheckNotReadonly(data_set_id, c) ==
    IF readonly THEN Gate("ReadOnly", c)
    ELSE CheckDetail(GetDataSetDetailOrNone(data_set_id, c))

\* is_non_temporal, given what load_or_null returned (r)
NonTemporalOf(r) ==
    IF r.st \in {"found", "null"} THEN Gate("ok", r.c) ELSE Gate(r.st, r.c)

\* is_non_temporal: True at once when the data source has non_temporal
\* set; no modelled record type has a non_temporal attribute; otherwise the
\* answer comes from the DataSet document whose _id is data_set_id.  Only
\* the outcome of the reads is kept: save_many runs the same insert_many on
\* both answers.
IsNonTemporal(record_type, data_set_id, c) ==
    IF non_temporal THEN Gate("ok", c)
    ELSE IF data_set_id = EmptyId THEN Gate("ok", c)
    ELSE NonTemporalOf(LoadOrNull(data_set_id, "DataSet", "DataSet", c))

\* the loop never entered: the first native id is returned as it is
LoopCondition_Never(result_, prev) == FALSE

\* while result <= self.__prev_object_id
LoopCondition(result_, prev) == result_ <= prev

\* retry_count += 1; if retry_count == 0: -- tested after the increment
RetryBranch(retry_count_) == retry_count_ = 0

\* create_ordered_object_id, given its first ObjectId() (r), up to its return
\* ("ok") or to the point where it is inside the retry loop ("spin")
TestFirst(r, prev) ==
    IF LoopCondition(r, prev) THEN [st |-> "spin", id |-> r]
    ELSE [st |-> "ok", id |-> r]

TryOrderedObjectId(n, prev, used) == TestFirst(ObjectId(n, used), prev)

\* the order test left out
OrderViolation_Never(record_id, save_to) == FALSE

\* if record_id <= save_to: raise
OrderViolation(record_id, save_to) == record_id <= save_to

\* The loop of save_many over `count` records: ids holds the ids
\* create_ordered_object_id returned, in order; st is "ok", "spin" (the call
\* for the next record is inside the retry loop holding candidate `held`) or
\* "OrderViolation" (raised for the last id of ids).
Alloc(st, ids, held) == [st |-> st, ids |-> ids, held |-> held]

Prepend(id, rest) == Alloc(rest.st, << id >> \o rest.ids, rest.held)

RECURSIVE AllocMany(_, _, _, _, _)
AllocNext(a, used, count, save_to) ==
    IF a.st = "spin" THEN Alloc("spin", << >>, a.id)
    ELSE IF OrderViolation(a.id, save_to)
    THEN Alloc("OrderViolation", << a.id >>, None)
    ELSE Prepend(a.id, AllocMany(a.id + 1, a.id, used \cup {a.id}, count - 1,
                                 save_to))

AllocMany(n, prev, used, count, save_to) ==
    IF count = 0 THEN Alloc("ok", << >>, None)
    ELSE AllocNext(TryOrderedObjectId(n, prev, used), used, count, save_to)

Last(s, default) == IF s = << >> THEN default ELSE s[Len(s)]

\* only the id assigned, the caller's data_set kept
AssignIdAndDataSet_KeepDataSet(rec, record_id, save_to) ==
    [rec EXCEPT !.id_ = record_id]

\* record.id_ = record_id; record.data_set = save_to
AssignIdAndDataSet(rec, record_id, save_to) ==
    [rec EXCEPT !.id_ = record_id, !.data_set = save_to]

\* the ids handed to the records of the batch last to first
AfterLoop_Reversed(recs, ids, m, save_to) ==
    [i \in DOMAIN recs |->
        IF i <= m THEN [recs[i] EXCEPT !.id_ = ids[m + 1 - i],
                                       !.data_set = save_to]
        ELSE recs[i]]

\* the records of a batch as the loop leaves them: the first m went through
\* its assignments, the others keep what the caller had put on them
AfterLoop(recs, ids, m, save_to) ==
    [i \in DOMAIN recs |->
        IF i <= m THEN AssignIdAndDataSet(recs[i], ids[i], save_to)
        ELSE recs[i]]

\* the ids of al that were put on records
Assigned(al) ==
    SubSeq(al.ids, 1,
           IF al.st = "OrderViolation" THEN Len(al.ids) - 1 ELSE Len(al.ids))

\* a record as the caller builds it
NewRecord(key, t, pre, imports) ==
    [key |-> key, t |-> t, id_ |-> pre, data_set |-> pre, imports |-> imports,
     read_only |-> FALSE, cutoff |-> None, imports_cutoff |-> None]

\* a DataSetDetail as the caller builds it; its key is data_set_id
NewDetail(data_set_id, v) ==
    [key |-> data_set_id, t |-> "DataSetDetail", id_ |-> None,
     data_set |-> None, imports |-> {}, read_only |-> v.read_only,
     cutoff |-> v.cutoff, imports_cutoff |-> v.imports_cutoff]

\* What save_many does: its outcome (st), the caches (c), the records as the
\* call leaves them (recs), the ids create_ordered_object_id returned (ret)
\* and those put on records (asg), the documents inserted (docs) and, if the
\* call is inside the retry loop, the candidate it holds (held).
Run(st, c, recs, ret, asg, docs, held) ==
    [st |-> st, c |-> c, recs |-> recs, ret |-> ret, asg |-> asg,
     docs |-> docs, held |-> held]

\* collection.insert_many([serialize(x) for x in records]): the driver gives
\* document i the native id doc_ids[i]
InsertMany(coll, recs, doc_ids) ==
    {Serialize(coll, recs[i], doc_ids[i]) : i \in DOMAIN recs}

\* save_many from is_non_temporal (nt) on
AfterAlloc(coll, recs, al, nt, doc_ids) ==
    IF nt.st # "ok" THEN Run(nt.st, nt.c, recs, al.ids, al.ids, {}, None)
    ELSE Run("ok", nt.c, recs, al.ids, al.ids,
             InsertMany(coll, recs, doc_ids), None)

\* save_many from the loop (al) on
AfterGate(n, coll, t, recs, save_to, c, al) ==
    IF al.st = "spin"
    THEN Run("spin", c, AfterLoop(recs, al.ids, Len(al.ids), save_to), al.ids,
             al.ids, {}, al.held)
    ELSE IF al.st # "ok"
    THEN Run(al.st, c, AfterLoop(recs, al.ids, Len(al.ids) - 1, save_to),
             al.ids, Assigned(al), {}, None)
    ELSE AfterAlloc(coll, AfterLoop(recs, al.ids, Len(al.ids), save_to), al,
                    IsNonTemporal(t, save_to, c),
                    DrawSeq(Last(al.ids, n) + 1, Used \cup Range(al.ids),
                            Len(recs)))

\* save_many from _check_not_readonly (gate) on; recs = << >> stands for
\* records = None
Gated(n, coll, t, recs, save_to, gate) ==
    IF gate.st # "ok" THEN Run(gate.st, gate.c, recs, << >>, << >>, {}, None)
    ELSE IF recs = << >> THEN Run("ok", gate.c, recs, << >>, << >>, {}, None)
    ELSE AfterGate(n, coll, t, recs, save_to, gate.c,
                   AllocMany(n, prev_object_id, Used, Len(recs), save_to))

\* TemporalMongoDataSource.save_many, the generator standing at n
SaveManyRun(n, coll, t, recs, save_to) ==
    Gated(n, coll, t, recs, save_to, CheckNotReadonly(save_to, Caches))

\* ------------------------------------------------------------------ state
NoSave == [ds |-> None, pre |-> None, recs |-> << >>]

\* no call on a query yet
NoCall ==
    [op |-> "", st |-> "", on |-> 0, before |-> << >>, after |-> << >>,
     count |-> 0, made |-> 0, args |-> << >>]

\* no iteration of a query yet
NoRun ==
    [q |-> 0, st |-> "", runs |-> 0, before |-> << >>, after |-> << >>,
     ran |-> << >>, found |-> {}, out |-> << >>,
     first |-> [st |-> "", out |-> << >>]]

\* no delete_db call yet
NoDrop == [st |-> "", readonly |-> FALSE, type |-> "", n |-> 0]

\* the data source as constructed and initialised, whatever its instance
\* type
Constructed ==
    /\ store = {}
    /\ prev_object_id = EmptyId
    /\ readonly = FALSE
    /\ cutoff_time = None
    /\ data_set_dict = EmptyMap
    /\ data_set_parent_dict = EmptyMap
    /\ data_set_detail_dict = EmptyMap
    /\ import_dict = EmptyMap
    /\ log = << >>
    /\ pc = "idle"
    /\ result = None
    /\ retry_count = 0
    /\ draws = 0
    /\ returned = << >>
    /\ last_saved = NoSave
    /\ assigned = << >>
    /\ deleted = {}
    /\ data_set_imports = EmptyMap
    /\ foreign = {}
    /\ tpc = [t \in Threads |-> "idle"]
    /\ tresult = [t \in Threads |-> None]
    /\ tretry = [t \in Threads |-> 0]
    /\ queries = << >>
    /\ sort_dicts = << >>
    /\ chain = << >>
    /\ last_call = NoCall
    /\ iterated = NoRun
    /\ non_temporal = FALSE
    /\ dropped = NoDrop

\* no key taken or populated yet
NoKey == [st |-> "", elements |-> << >>, value |-> << >>]

NoKeys == rec_key = << >> /\ the_key = NoKey /\ populated = NoKey

\* the data source of the tests: db_name.instance_type = InstanceType.TEST
Init == Constructed /\ instance_type = "TEST" /\ NoKeys

\* the datasets a caller of this instance holds an id of: the root and the
\* ids create_data_set returned
KnownDataSets == {EmptyId} \cup DOMAIN import_dict

\* The positions the generator can stand at when a call starts: it continues
\* after the greatest id produced (Top), has been set forwards, skipping ids,
\* or has been set back to an id it skipped.
Top == CHOOSE x \in Used \cup {EmptyId} : \A y \in Used : y <= x

Skipped == Unused(1, Used) \cap 1..Top

Positions ==
    {n \in Unused(1, Used) :
        n > Top => Cardinality(Skipped) + (n - Top - 1) <= MaxGap}

\* an upsert by key: the earlier documents of the same collection, dataset
\* and key give way to the inserted ones
InsertedInto_Upsert(docs) ==
    {e \in store :
        \A d \in docs :
            ~(d.coll = e.coll /\ d.dataset = e.dataset /\ d.key = e.key)}
        \cup docs

\* the database after collection.insert_many / insert_one of docs: the
\* documents are added and nothing stored is touched
InsertedInto(docs) == store \cup docs

\* What a call leaves behind: the caches as the reads left them (c), the ids
\* create_ordered_object_id returned (ret) and those put on records (asg),
\* the documents inserted (docs) and, if the call is inside the retry loop,
\* the candidate it holds (held).
Leave(c, ret, asg, docs, held) ==
    /\ data_set_detail_dict' = c.dd
    /\ import_dict' = c.imp
    /\ returned' = returned \o ret
    /\ assigned' = assigned \o asg
    /\ prev_object_id' = Last(ret, prev_object_id)
    /\ store' = InsertedInto(docs)
    /\ IF held = None
       THEN /\ pc' = "idle"
            /\ UNCHANGED << result, retry_count, draws >>
       ELSE /\ pc' = "spin"
            /\ result' = held
            /\ retry_count' = 0
            /\ draws' = 1
    /\ UNCHANGED << readonly, cutoff_time, log, foreign, threadVars,
                    queryVars, sourceVars, keyVars >>

\* the (key, dataset) pairs for which docs hold a live record
LiveIn(docs) ==
    {<< d.key, d.dataset >> : d \in {x \in docs : x.coll = "BaseSample"}}

\* ---------------------------------------------------------------- actions
Allocated(a) ==
    IF a.st = "spin" THEN Leave(Caches, << >>, << >>, {}, a.id)
    ELSE Leave(Caches, << a.id >>, << >>, {}, None)

\* MongoDataSource.create_ordered_object_id called by itself
CreateOrderedObjectId(n) ==
    /\ pc = "idle"
    /\ Allocated(TryOrderedObjectId(n, prev_object_id, Used))
    /\ UNCHANGED << dataSetVars, last_saved, deleted >>

\* one more iteration of the retry loop of create_ordered_object_id
Spin ==
    /\ pc = "spin"
    /\ retry_count < MaxRetry
    /\ LoopCondition(result, prev_object_id)
    /\ retry_count' = retry_count + 1
    /\ IF RetryBranch(retry_count + 1)
       THEN /\ log' = Append(log, "warning")
            /\ \E n \in Positions : result' = ObjectId(n, Used)
            /\ draws' = draws + 1
       ELSE UNCHANGED << log, result, draws >>
    /\ UNCHANGED << pc, prev_object_id, returned, storeVars, flagVars,
                    threadVars, queryVars, sourceVars, keyVars >>

Saved(pre, save_to, r) ==
    /\ Leave(r.c, r.ret, r.asg, r.docs, r.held)
    /\ deleted' = deleted \ LiveIn(r.docs)
    /\ last_saved' =
            IF r.st = "ok" THEN [ds |-> save_to, pre |-> pre, recs |-> r.recs]
            ELSE last_saved

\* save_many(t, records, save_to) for records with keys ks, on which the
\* caller had put id_ = data_set = pre
SaveMany(n, t, ks, pre, save_to) ==
    /\ pc = "idle"
    /\ CanDraw(n, Used, 2 * Len(ks))
    /\ Saved(pre, save_to,
             SaveManyRun(n, "BaseSample", t,
                         [i \in DOMAIN ks |-> NewRecord(ks[i], t, pre, {})],
                         save_to))
    /\ UNCHANGED << dataSetVars >>

\* pymongo Collection.insert_one(document) accepts a mapping and raises
\* TypeError for anything else; delete hands it the DeletedRecord object
\* itself, not serialize(record).
InsertOne(is_mapping, doc) ==
    IF is_mapping THEN [st |-> "ok", docs |-> {doc}]
    ELSE [st |-> "TypeError", docs |-> {}]

\* delete from create_ordered_object_id (a) on
DeleteAllocated(key, delete_in, c, a) ==
    IF a.st = "spin"
    THEN /\ Leave(c, << >>, << >>, {}, a.id)
         /\ UNCHANGED deleted
    ELSE /\ Leave(c, << a.id >>, << a.id >>,
                  InsertOne(FALSE, Doc("BaseSample", a.id, delete_in, key,
                                       "DeletedRecord", {}, FALSE, None,
                                       None)).docs,
                  None)
         /\ deleted' = deleted \cup {<< key, delete_in >>}

\* delete from _check_not_readonly (gate) on
DeleteGated(n, key, delete_in, gate) ==
    IF gate.st # "ok"
    THEN /\ Leave(gate.c, << >>, << >>, {}, None)
         /\ UNCHANGED deleted
    ELSE DeleteAllocated(key, delete_in, gate.c,
                TryOrderedObjectId(n, prev_object_id, Used))

\* TemporalMongoDataSource.delete
Delete(n, key, delete_in) ==
    /\ pc = "idle"
    /\ DeleteGated(n, key, delete_in, CheckNotReadonly(delete_in, Caches))
    /\ UNCHANGED << dataSetVars, last_saved >>

\* the imports argument of create_data_set left out
NoImports == {None}

\* save_data_set after save_one: the entries of __data_set_dict and
\* __data_set_parent_dict, then the lookup list (b) and its cache entry
DataSetCached(data_set, r, b) ==
    /\ Leave(CacheLookupList(data_set.id_, b).c, r.ret, r.asg, r.docs, r.held)
    /\ data_set_dict' = Put(data_set_dict, data_set.key, data_set.id_)
    /\ data_set_parent_dict' =
            Put(data_set_parent_dict, data_set.id_, data_set.data_set)
    /\ data_set_imports' =
            Put(data_set_imports, data_set.id_, data_set.imports)

\* save_data_set, given what save_one did (r)
DataSetSaved(r) ==
    IF r.st # "ok"
    THEN /\ Leave(r.c, r.ret, r.asg, r.docs, r.held)
         /\ UNCHANGED << dataSetVars >>
    ELSE DataSetCached(r.recs[1], r, BuildDataSetLookupList(r.recs[1], r.c))

\* DataSource.create_data_set and TemporalMongoDataSource.save_data_set
CreateDataSet(n, data_set_name, parent_data_set, imports_arg) ==
    /\ pc = "idle"
    /\ CanDraw(n, Used, 2)
    /\ DataSetSaved(
           SaveManyRun(n, "DataSet", "DataSet",
                       << NewRecord(data_set_name, "DataSet", None,
                                    IF imports_arg = NoImports
                                    THEN {parent_data_set} ELSE imports_arg) >>,
                       parent_data_set))
    /\ UNCHANGED << last_saved, deleted >>

\* load_or_null_by_key(key, load_from) for a key of BaseSample: the record
\* it returns is LoadOrNullByKey, what it leaves behind is in the caches
LoadByKey(key, load_from) ==
    /\ pc = "idle"
    /\ Leave(LoadOrNullByKey("BaseSample", key, load_from, Caches).c, << >>,
             << >>, {}, None)
    /\ UNCHANGED << dataSetVars, last_saved, deleted >>

\* save_one, given what save_many did (r)
DetailSaved(r) == Leave(r.c, r.ret, r.asg, r.docs, r.held)

\* save_one(DataSetDetail, detail, save_to) for the detail of data_set_id,
\* saved to the parent of that dataset, where get_data_set_detail_or_none
\* looks for it
SaveDetail(n, data_set_id, v) ==
    /\ pc = "idle"
    /\ CanDraw(n, Used, 2)
    /\ data_set_id \in DOMAIN data_set_parent_dict
    /\ DetailSaved(SaveManyRun(n, "DataSetDetail", "DataSetDetail",
                               << NewDetail(data_set_id, v) >>,
                               data_set_parent_dict[data_set_id]))
    /\ UNCHANGED << dataSetVars, last_saved, deleted >>

\* load_or_null(id_, type_); coll is the collection of type_
LoadById(id_, coll, type_) ==
    /\ pc = "idle"
    /\ Leave(LoadOrNull(id_, coll, type_, Caches).c, << >>, << >>, {}, None)
    /\ UNCHANGED << dataSetVars, last_saved, deleted >>

\* data_source.readonly = b
SetReadonly(b) ==
    /\ pc = "idle"
    /\ readonly # b
    /\ readonly' = b
    /\ UNCHANGED << cutoff_time, log, callVars, prev_object_id, returned,
                    storeVars, threadVars, queryVars, sourceVars, keyVars >>

\* data_source.cutoff_time = c
SetCutoffTime(c) ==
    /\ pc = "idle"
    /\ cutoff_time # c
    /\ cutoff_time' = c
    /\ UNCHANGED << readonly, log, callVars, prev_object_id, returned,
                    storeVars, threadVars, queryVars, sourceVars, keyVars >>

PreValues == {None, MaxId}

KeySeqs == UNION {[1..m -> Keys] : m \in 0..MaxBatch}

ImportArgs == {NoImports} \cup {{}} \cup {{i} : i \in ObjectIds}

CutoffTimes ==
    {None} \cup {d.id : d \in {x \in store : x.coll = "BaseSample"}}

\* the values of a detail: read_only alone, cutoff_time alone or
\* imports_cutoff_time alone, the times those of stored records
DetailValue(read_only, cutoff, imports_cutoff) ==
    [read_only |-> read_only, cutoff |-> cutoff,
     imports_cutoff |-> imports_cutoff]

DetailValues ==
    {DetailValue(TRUE, None, None)}
        \cup {DetailValue(FALSE, x, None) : x \in CutoffTimes \ {None}}
        \cup {DetailValue(FALSE, None, x) : x \in CutoffTimes \ {None}}

\* the ids a caller can hold: those of stored documents and those put on
\* records
HeldIds == {d.id : d \in store} \cup Range(assigned)

\* the (collection, type_) pairs of load_or_null
LoadTypes ==
    {<< "BaseSample", "BaseSample" >>, << "BaseSample", "DerivedSample" >>,
     << "DataSet", "DataSet" >>}

\* data_source.non_temporal = b
SetNonTemporal(b) ==
    /\ pc = "idle"
    /\ non_temporal # b
    /\ non_temporal' = b
    /\ UNCHANGED << instance_type, dropped, flagVars, log, callVars,
                    prev_object_id, returned, storeVars, threadVars,
                    queryVars, keyVars >>

Next ==
    \/ \E n \in Positions : CreateOrderedObjectId(n)
    \/ Spin
    \/ \E n \in Positions, t \in RecordTypes, ks \in KeySeqs,
          pre \in PreValues, save_to \in KnownDataSets :
            SaveMany(n, t, ks, pre, save_to)
    \/ \E n \in Positions, key \in Keys, delete_in \in KnownDataSets :
            Delete(n, key, delete_in)
    \/ \E n \in Positions, data_set_name \in Names,
          parent_data_set \in KnownDataSets, imports_arg \in ImportArgs :
            CreateDataSet(n, data_set_name, parent_data_set, imports_arg)
    \/ \E key \in Keys, load_from \in KnownDataSets : LoadByKey(key, load_from)
    \/ \E n \in Positions, data_set_id \in KnownDataSets, v \in DetailValues :
            SaveDetail(n, data_set_id, v)
    \/ \E id_ \in HeldIds, lt \in LoadTypes : LoadById(id_, lt[1], lt[2])
    \/ \E b \in BOOLEAN : SetReadonly(b)
    \/ \E c \in CutoffTimes : SetCutoffTime(c)

Spec == Init /\ [][Next]_vars

\* ------------------------------------- successive instances, one database
\* A data source object is constructed on a database that earlier objects
\* wrote to: empty caches, no flags, and callers that kept the dataset ids
\* create_data_set had returned to them.

\* the object is as constructed: nothing cached, no flag set
AsConstructed ==
    /\ prev_object_id = EmptyId
    /\ ~readonly
    /\ cutoff_time = None
    /\ data_set_dict = EmptyMap
    /\ data_set_parent_dict = EmptyMap
    /\ data_set_detail_dict = EmptyMap
    /\ import_dict = EmptyMap

\* TemporalMongoDataSource(): the dicts, cutoff_time, readonly and
\* __prev_object_id as the constructors set them
NewInstance ==
    /\ pc = "idle"
    /\ ~AsConstructed
    /\ prev_object_id' = EmptyId
    /\ readonly' = FALSE
    /\ cutoff_time' = None
    /\ data_set_dict' = EmptyMap
    /\ data_set_parent_dict' = EmptyMap
    /\ data_set_detail_dict' = EmptyMap
    /\ import_dict' = EmptyMap
    /\ UNCHANGED << store, log, callVars, returned, last_saved, assigned,
                    deleted, data_set_imports, foreign, threadVars,
                    queryVars, sourceVars, keyVars >>

\* get_data_set_or_none from the record on: the two dicts, then the lookup
\* list if there is none for this id
DataSetKnown(data_set_name, data_set_record, c) ==
    /\ data_set_dict' = Put(data_set_dict, data_set_name, data_set_record.id_)
    /\ data_set_parent_dict' =
            Put(data_set_parent_dict, data_set_record.id_,
                data_set_record.data_set)
    /\ IF data_set_record.id_ \in DOMAIN c.imp
       THEN Leave(c, << >>, << >>, {}, None)
       ELSE Leave(CacheLookupList(data_set_record.id_,
                                  BuildDataSetLookupList(data_set_record,
                                                         c)).c,
                  << >>, << >>, {}, None)

\* get_data_set_or_none, given what load_or_null_by_key returned (r)
DataSetLoaded(data_set_name, r) ==
    IF r.st # "found"
    THEN /\ Leave(r.c, << >>, << >>, {}, None)
         /\ UNCHANGED << data_set_dict, data_set_parent_dict >>
    ELSE DataSetKnown(data_set_name, Deserialize(r.doc), r.c)

\* get_data_set_or_none from load_or_null_by_key (r) on: what it returns
DataSetOrNoneLoaded(r) ==
    IF r.st = "found" THEN [st |-> "ok", id |-> Deserialize(r.doc).id_]
    ELSE IF r.st = "null" THEN [st |-> "ok", id |-> None]
    ELSE [st |-> r.st, id |-> None]

\* get_data_set_or_none(data_set_name, load_from): what it returns.  A name
\* in __data_set_dict is answered from the dict, whatever load_from is.
DataSetOrNone(data_set_name, load_from, c) ==
    IF data_set_name \in DOMAIN data_set_dict
    THEN [st |-> "ok", id |-> data_set_dict[data_set_name]]
    ELSE DataSetOrNoneLoaded(LoadOrNullByKey("DataSet", data_set_name,
                                             load_from, c))

\* get_data_set_or_none(data_set_name, load_from) for a name that is not in
\* __data_set_dict
GetDataSetOrNone(data_set_name, load_from) ==
    /\ pc = "idle"
    /\ data_set_name \notin DOMAIN data_set_dict
    /\ DataSetLoaded(data_set_name,
                     LoadOrNullByKey("DataSet", data_set_name, load_from,
                                     Caches))
    /\ UNCHANGED << data_set_imports, last_saved, deleted >>

\* save_many of another data source object on the same database, as this
\* object sees it: a serialized record appears in its collection under a
\* native id later than every id produced so far.  Followed while this object
\* has a cutoff_time, when its own writes are refused.  delete inserts
\* nothing, so no DeletedRecord appears.
OtherWriter(coll, data_set, rec) ==
    /\ pc = "idle"
    /\ cutoff_time # None
    /\ Top < MaxId
    /\ Cardinality(foreign) < MaxForeign
    /\ store' = store \cup InsertMany(coll, << [rec EXCEPT !.data_set = data_set] >>,
                                     << Top + 1 >>)
    /\ foreign' = foreign \cup {Top + 1}
    /\ deleted' = deleted \ {<< rec.key, data_set >>}
    /\ UNCHANGED << prev_object_id, returned, assigned, last_saved, log,
                    data_set_dict, data_set_parent_dict, data_set_detail_dict,
                    import_dict, data_set_imports, flagVars, callVars,
                    threadVars, queryVars, sourceVars, keyVars >>

\* the records another object saves: a sample, a dataset, a detail
OtherRecords ==
    [coll : {"BaseSample"}, rec : {NewRecord(k, "BaseSample", None, {}) : k \in Keys}]
        \cup [coll : {"DataSet"},
              rec : {NewRecord(x, "DataSet", None, {}) : x \in Names}]
        \cup [coll : {"DataSetDetail"},
              rec : {NewDetail(x, DetailValue(TRUE, None, None)) :
                        x \in DOMAIN data_set_parent_dict}]

\* the dataset ids a caller can hold: those this instance knows and those
\* create_data_set returned to callers of earlier instances
HeldDataSets == KnownDataSets \cup DOMAIN data_set_imports

\* a cutoff can be the time of any stored document
AnyCutoffTimes == {d.id : d \in store}

\* data_source.cutoff_time = c, set once, before the object is used
SetCutoffTimeAtStart(c) == AsConstructed /\ SetCutoffTime(c)

\* the generator's clock is never set back or forwards here: every call
\* starts right after the greatest id produced
Clock == Positions \cap {Top + 1}

OneKey == {<< key >> : key \in Keys}

NextInstances ==
    \/ NewInstance
    \/ \E n \in Clock, t \in RecordTypes, ks \in OneKey,
          save_to \in HeldDataSets :
            SaveMany(n, t, ks, None, save_to)
    \/ \E n \in Clock, key \in Keys, delete_in \in HeldDataSets :
            Delete(n, key, delete_in)
    \/ \E n \in Clock, data_set_name \in Names,
          parent_data_set \in HeldDataSets, imports_arg \in ImportArgs :
            CreateDataSet(n, data_set_name, parent_data_set, imports_arg)
    \/ \E n \in Clock, data_set_id \in HeldDataSets, v \in DetailValues :
            SaveDetail(n, data_set_id, v)
    \/ \E data_set_name \in Names, load_from \in HeldDataSets :
            GetDataSetOrNone(data_set_name, load_from)
    \/ \E key \in Keys, load_from \in HeldDataSets : LoadByKey(key, load_from)
    \/ \E c \in AnyCutoffTimes : SetCutoffTimeAtStart(c)
    \/ \E o \in OtherRecords, data_set \in HeldDataSets :
            OtherWriter(o.coll, data_set, o.rec)

SpecInstances == Init /\ [][NextInstances]_vars

\* ------------------------------------------------- threads on one instance
\* create_ordered_object_id run by several threads of one process, statement
\* by statement; the generator counts upwards.  Nothing in the method or in
\* its callers takes a lock.

\* result = ObjectId(); retry_count = 0
TDraw(t) ==
    /\ tpc[t] = "idle"
    /\ Top < MaxId
    /\ tresult' = [tresult EXCEPT ![t] = ObjectId(Top + 1, Used)]
    /\ tretry' = [tretry EXCEPT ![t] = 0]
    /\ tpc' = [tpc EXCEPT ![t] = "test"]
    /\ UNCHANGED << prev_object_id, returned, log, storeVars, flagVars,
                    callVars, queryVars, sourceVars, keyVars >>

\* while result <= self.__prev_object_id
TTest(t) ==
    /\ tpc[t] = "test"
    /\ tpc' = [tpc EXCEPT ![t] =
                  IF LoopCondition(tresult[t], prev_object_id) THEN "loop"
                  ELSE "assign"]
    /\ UNCHANGED << tresult, tretry, prev_object_id, returned, log,
                    storeVars, flagVars, callVars,
                    queryVars, sourceVars, keyVars >>

\* the body of the loop
TLoop(t) ==
    /\ tpc[t] = "loop"
    /\ tretry[t] < MaxRetry
    /\ tretry' = [tretry EXCEPT ![t] = tretry[t] + 1]
    /\ IF RetryBranch(tretry[t] + 1)
       THEN /\ Top < MaxId
            /\ log' = Append(log, "warning")
            /\ tresult' = [tresult EXCEPT ![t] = ObjectId(Top + 1, Used)]
       ELSE UNCHANGED << log, tresult >>
    /\ tpc' = [tpc EXCEPT ![t] = "test"]
    /\ UNCHANGED << prev_object_id, returned, storeVars, flagVars, callVars,
                    queryVars, sourceVars, keyVars >>

\* if retry_count != 0: warning; self.__prev_object_id = result; return result
TAssign(t) ==
    /\ tpc[t] = "assign"
    /\ log' = IF tretry[t] # 0 THEN Append(log, "warning") ELSE log
    /\ prev_object_id' = tresult[t]
    /\ returned' = Append(returned, tresult[t])
    /\ tpc' = [tpc EXCEPT ![t] = "idle"]
    /\ UNCHANGED << tresult, tretry, storeVars, flagVars, callVars,
                    queryVars, sourceVars, keyVars >>

NextThreads ==
    \/ \E t \in Threads : TDraw(t)
    \/ \E t \in Threads : TTest(t)
    \/ \E t \in Threads : TLoop(t)
    \/ \E t \in Threads : TAssign(t)

SpecThreads == Init /\ [][NextThreads]_vars

\* ------------------------------------------------------- TemporalMongoQuery
\* A query object holds its own _pipeline list; the stages in it are dicts,
\* and list.copy() copies the list, not the dicts.  Only a $sort dict is ever
\* updated after it was made, so a $sort stage is followed by reference (ref
\* into sort_dicts) and every other stage by value.

\* what a caller passes to get_query: a class or a dataset id
TypeArg(t) == [class |-> t, id |-> None]

IdArg(i) == [class |-> "", id |-> i]

QueryTypes == {"BaseSample", "DerivedSample"}

\* the attributes of a sample the callers name in where and sort calls
Attrs == {"record_id", "record_index"}

\* str_ext.to_pascal_case on these attributes
to_pascal_case ==
    [a \in Attrs |-> IF a = "record_id" THEN "RecordId" ELSE "RecordIndex"]

\* a stage of the pipeline: op is the stage name, on the field it tests,
\* t and ids the operand ($sort: ids = {ref})
Stage(op, on, t, ids) == [op |-> op, on |-> on, t |-> t, ids |-> ids]

\* {'$project': {'Id': '$_id', 'Key': '$_key', '_id': 0}}
ProjectStage == Stage("$project", "", "", {})

\* [{'$match': {'_t': self._type.__name__}}]
TemporalMongoQuery(load_from, type_, collection) ==
    [load_from |-> load_from, type_ |-> type_, collection |-> collection,
     pipeline |-> << Stage("$match", "_t", type_, {}) >>]

\* ClassInfo.get_root_type(type_).__name__: type_.mro() of a value that is
\* not a class raises AttributeError
GetOrCreateCollection(type_) ==
    IF type_.class = "" THEN [st |-> "AttributeError", coll |-> ""]
    ELSE IF type_.class \in QueryTypes THEN [st |-> "ok", coll |-> "BaseSample"]
    ELSE [st |-> "ok", coll |-> type_.class]

\* no stage is taken for a sort stage
HasSort_Never(pipeline) == FALSE

\* __has_sort
HasSort(pipeline) == \E n \in DOMAIN pipeline : pipeline[n].op = "$sort"

\* next(stage['$sort'] for stage in query._pipeline if '$sort' in stage)
SortsOf(pipeline) ==
    CHOOSE ref \in 1..Len(sort_dicts) :
        \E n \in DOMAIN pipeline :
            /\ pipeline[n].op = "$sort"
            /\ ref \in pipeline[n].ids
            /\ \A m \in 1..(n - 1) : pipeline[m].op # "$sort"

\* sorts[field] = direction on a dict: a field already in it keeps its place
SetItem(sorts, field, direction) ==
    IF \E n \in DOMAIN sorts : sorts[n].field = field
    THEN [n \in DOMAIN sorts |->
            IF sorts[n].field = field
            THEN [field |-> field, direction |-> direction] ELSE sorts[n]]
    ELSE Append(sorts, [field |-> field, direction |-> direction])

\* the pipeline as the driver would receive it: every $sort stage with the
\* dict it refers to (dicts)
Resolved(pipeline, dicts) ==
    [n \in DOMAIN pipeline |->
        [op |-> pipeline[n].op, on |-> pipeline[n].on, t |-> pipeline[n].t,
         ids |-> IF pipeline[n].op = "$sort" THEN {} ELSE pipeline[n].ids,
         sorts |-> IF pipeline[n].op = "$sort"
                   THEN dicts[CHOOSE ref \in pipeline[n].ids : TRUE]
                   ELSE << >>]]

\* what a call leaves for the claims: the call, how it ended, the receiver
\* (on), its pipeline before and after the call (dicts: the $sort dicts after
\* it), the number of query objects before it and the number it made
Call(op, st, on, args, dicts, made) ==
    [op |-> op, st |-> st, on |-> on,
     before |-> IF on = 0 THEN << >>
                ELSE Resolved(queries[on].pipeline, sort_dicts),
     after |-> IF on = 0 THEN << >>
               ELSE Resolved(queries[on].pipeline, dicts),
     count |-> Len(queries), made |-> made, args |-> args]

\* TemporalMongoDataSource.get_query(load_from, type_), given the collection
GetQueryIn(load_from, type_, col) ==
    IF col.st # "ok"
    THEN /\ last_call' = Call("get_query", col.st, 0, << load_from, type_ >>,
                            sort_dicts, 0)
         /\ UNCHANGED << queries, chain >>
    ELSE /\ queries' = Append(queries,
                              TemporalMongoQuery(load_from.id, type_.class,
                                                 col.coll))
         /\ chain' = Append(chain, << >>)
         /\ last_call' = Call("get_query", "ok", 0, << load_from, type_ >>,
                            sort_dicts, 1)

\* TemporalMongoDataSource.get_query(load_from, type_)
GetQuery(load_from, type_) ==
    /\ pc = "idle"
    /\ Len(queries) < MaxQueries
    /\ GetQueryIn(load_from, type_, GetOrCreateCollection(type_))
    /\ UNCHANGED << sort_dicts, iterated >>
    /\ UNCHANGED << store, prev_object_id, returned, log, data_set_dict,
                    data_set_parent_dict, data_set_detail_dict, import_dict,
                    last_saved, assigned, deleted, data_set_imports, foreign,
                    flagVars, callVars, threadVars,
                    sourceVars, keyVars >>

\* a new query object with a copy of the receiver's list
Derived(q, pipeline) == [q EXCEPT !.pipeline = pipeline]

\* TemporalMongoQuery.where({attr: value}).  __fix_predicate_query leaves a
\* plain value as it is.
Where(q, attr, value) ==
    /\ pc = "idle"
    /\ q \in DOMAIN queries
    /\ Len(queries) < MaxQueries
    /\ IF ~HasSort(queries[q].pipeline)
       THEN /\ queries' =
                Append(queries,
                       Derived(queries[q],
                               Append(queries[q].pipeline,
                                      Stage("$match", to_pascal_case[attr],
                                            "", {value}))))
            /\ chain' = Append(chain,
                               Append(chain[q],
                                      [op |-> "where", attr |-> attr,
                                       value |-> value]))
            /\ last_call' = Call("where", "ok", q, << >>, sort_dicts, 1)
       ELSE /\ last_call' = Call("where", "Exception", q, << >>, sort_dicts, 0)
            /\ UNCHANGED << queries, chain >>
    /\ UNCHANGED << sort_dicts, iterated >>
    /\ UNCHANGED << store, prev_object_id, returned, log, data_set_dict,
                    data_set_parent_dict, data_set_detail_dict, import_dict,
                    last_saved, assigned, deleted, data_set_imports, foreign,
                    flagVars, callVars, threadVars,
                    sourceVars, keyVars >>

\* sort_by and sort_by_descending, given the new query's list and the
\* $sort dicts as the call leaves them
Sorted(op, q, attr, direction, pipeline, dicts) ==
    /\ queries' = Append(queries, Derived(queries[q], pipeline))
    /\ sort_dicts' = dicts
    /\ chain' = Append(chain,
                       Append(chain[q],
                              [op |-> op, attr |-> attr, value |-> direction]))
    /\ last_call' = Call(op, "ok", q, << >>, dicts, 1)

\* sort_by and sort_by_descending: direction is 1 or -1
Sort(op, q, attr, direction) ==
    /\ pc = "idle"
    /\ q \in DOMAIN queries
    /\ Len(queries) < MaxQueries
    /\ IF HasSort(queries[q].pipeline)
       THEN Sorted(op, q, attr, direction, queries[q].pipeline,
                   [sort_dicts EXCEPT ![SortsOf(queries[q].pipeline)] =
                        SetItem(@, to_pascal_case[attr], direction)])
       ELSE Sorted(op, q, attr, direction,
                   Append(queries[q].pipeline,
                          Stage("$sort", "", "", {Len(sort_dicts) + 1})),
                   Append(sort_dicts,
                          SetItem(<< >>, to_pascal_case[attr], direction)))
    /\ UNCHANGED iterated
    /\ UNCHANGED << store, prev_object_id, returned, log, data_set_dict,
                    data_set_parent_dict, data_set_detail_dict, import_dict,
                    last_saved, assigned, deleted, data_set_imports, foreign,
                    flagVars, callVars, threadVars,
                    sourceVars, keyVars >>

\* TemporalMongoQuery.sort_by
SortBy(q, attr) == Sort("sort_by", q, attr, 1)

\* TemporalMongoQuery.sort_by_descending
SortByDescending(q, attr) == Sort("sort_by_descending", q, attr, -1)

\* apply_final_constraints(pipeline, load_from) from get_cutoff_time (g) on:
\* the $lte stage is appended to the list passed in
AppendCutoff(pipeline, g) ==
    IF g.st # "ok" THEN [st |-> g.st, pipeline |-> pipeline, c |-> g.c]
    ELSE IF g.cutoff = None
    THEN [st |-> "ok", pipeline |-> pipeline, c |-> g.c]
    ELSE [st |-> "ok",
          pipeline |-> Append(pipeline,
                              Stage("$match", "_id", "", {g.cutoff})),
          c |-> g.c]

\* apply_final_constraints(pipeline, load_from) from the lookup list (l) on:
\* the $in stage is appended to the list passed in
AppendDataSets(pipeline, load_from, l) ==
    IF l.st # "ok" THEN [st |-> l.st, pipeline |-> pipeline, c |-> l.c]
    ELSE AppendCutoff(Append(pipeline,
                             Stage("$match", "_dataset", "", l.list)),
                      GetCutoffTime(load_from, l.c))

\* apply_final_constraints(pipeline, load_from): appends to the caller's
\* list and returns that list
ApplyFinalConstraintsTo(pipeline, load_from, c) ==
    AppendDataSets(pipeline, load_from, GetDataSetLookupList(load_from, c))

\* a stored document passes a $match stage.  The key of a sample stands for
\* its RecordId; every sample has RecordIndex 0.
Passes(d, stage) ==
    IF stage.on = "_t" THEN d.t = stage.t
    ELSE IF stage.on = "_dataset" THEN MatchDataSet(d, stage.ids)
    ELSE IF stage.on = "_id"
    THEN \A cutoff \in stage.ids : MatchCutoff(d, cutoff)
    ELSE IF stage.on = "RecordId" THEN d.key \in stage.ids
    ELSE 0 \in stage.ids

\* one stage of Collection.aggregate on the stream s.  After a $project
\* stage the documents have the fields Id and Key only: no $match stage of
\* this pipeline passes them, and a second $project leaves them empty.
AfterStage(stage, s) ==
    IF stage.op = "$match"
    THEN [s EXCEPT !.docs = IF s.projected = 0
                            THEN {d \in s.docs : Passes(d, stage)} ELSE {}]
    ELSE IF stage.op = "$project" THEN [s EXCEPT !.projected = @ + 1]
    ELSE s

\* Collection.aggregate(pipeline), from stage n on
RECURSIVE AggregatePipeline(_, _, _)
AggregatePipeline(pipeline, n, s) ==
    IF n > Len(pipeline) THEN s
    ELSE AggregatePipeline(pipeline, n + 1, AfterStage(pipeline[n], s))

\* the documents of a collection, as the first stage receives them
Collection(coll) == [docs |-> {d \in store : d.coll = coll}, projected |-> 0]

\* as_iterable from the cursor (s) on.  Nothing in the cursor: no batch, the
\* iteration ends.  record_info['Key'] of a document projected twice raises
\* KeyError.  Otherwise the first batch reaches
\* `if self._data_source.freeze_imports`, an attribute that no class of the
\* data source defines: AttributeError, before anything is yielded.
FirstBatch(s) ==
    IF s.docs = {} THEN "ok"
    ELSE IF s.projected > 1 THEN "KeyError"
    ELSE "AttributeError"

Projections(pipeline) ==
    Cardinality({n \in DOMAIN pipeline : pipeline[n].op = "$project"})

\* what an iteration leaves: how it ended (st), the list of the query as it
\* leaves it (pipeline), the ids the cursor of the first aggregate held
\* (found), the records yielded (out), and how the iteration of the same
\* query before this one ended (first)
Iterated(q, st, pipeline, c, found, ran) ==
    /\ queries' = [queries EXCEPT ![q].pipeline = pipeline]
    /\ data_set_detail_dict' = c.dd
    /\ import_dict' = c.imp
    /\ iterated' = [q |-> q, st |-> st, runs |-> Projections(pipeline),
                    before |-> Resolved(queries[q].pipeline, sort_dicts),
                    after |-> Resolved(pipeline, sort_dicts),
                    ran |-> Resolved(ran, sort_dicts),
                    found |-> found, out |-> << >>,
                    first |-> IF iterated.q = q
                              THEN [st |-> iterated.st, out |-> iterated.out]
                              ELSE NoRun.first]
    /\ last_call' = [Call("as_iterable", st, q, << >>, sort_dicts, 0)
                        EXCEPT !.after = Resolved(pipeline, sort_dicts)]

\* as_iterable, given the list handed to the first aggregate and its cursor
Aggregated(q, pipeline, c, s) ==
    Iterated(q, FirstBatch(s), pipeline, c, {d.id : d \in s.docs}, pipeline)

\* as_iterable from the $project append on (b: what came before it)
Projected(q, b, pipeline) ==
    IF b.st # "ok" THEN Iterated(q, b.st, b.pipeline, b.c, {}, << >>)
    ELSE Aggregated(q, pipeline, b.c,
                    AggregatePipeline(pipeline, 1,
                                      Collection(queries[q].collection)))

AsIterableFrom(q, b) == Projected(q, b, Append(b.pipeline, ProjectStage))

\* for obj in query.as_iterable(): one whole iteration.  batch_queryable is
\* self._pipeline itself, with or without the appended final constraints,
\* and the $project stage is appended to that same list.
AsIterable(q) ==
    /\ pc = "idle"
    /\ q \in DOMAIN queries
    /\ Projections(queries[q].pipeline) < MaxRuns
    /\ IF ~HasSort(queries[q].pipeline)
       THEN AsIterableFrom(q, ApplyFinalConstraintsTo(queries[q].pipeline,
                                                     queries[q].load_from,
                                                     Caches))
       ELSE AsIterableFrom(q, [st |-> "ok", pipeline |-> queries[q].pipeline,
                               c |-> Caches])
    /\ UNCHANGED << sort_dicts, chain >>
    /\ UNCHANGED << store, prev_object_id, returned, log, data_set_dict,
                    data_set_parent_dict, last_saved, assigned, deleted,
                    data_set_imports, foreign, flagVars, callVars,
                    threadVars, sourceVars, keyVars >>

\* ------------------------------------------------ queries: the two settings
\* get_query called in the order of the implementation's parameters
\* (load_from, type_) and in the order of DataSource.get_query and of the
\* tests (record_type, load_from)
QueryArgs ==
    {<< IdArg(d), TypeArg(t) >> : d \in KnownDataSets, t \in QueryTypes}
        \cup {<< TypeArg(t), IdArg(d) >> :
                d \in KnownDataSets, t \in QueryTypes}

\* the values a where clause compares RecordId with: every key, and a value
\* that no record has
WhereValues == Keys \cup {0}

\* The builder alone: callers derive queries from any query they hold, so
\* one receiver can have several queries derived from it.
NextBuilder ==
    \/ \E a \in QueryArgs : GetQuery(a[1], a[2])
    \/ \E q \in DOMAIN queries, value \in WhereValues :
            Where(q, "record_id", value)
    \/ \E q \in DOMAIN queries, attr \in Attrs : SortBy(q, attr)
    \/ \E q \in DOMAIN queries, attr \in Attrs : SortByDescending(q, attr)

SpecBuilder == Init /\ [][NextBuilder]_vars

\* A query over stored records: the callers of one data source object first
\* save records and create datasets (the generator's clock runs forwards),
\* then build one query clause by clause, as in
\* get_query(...).where(...).sort_by(...), and iterate it.
BeforeQueries == queries = << >> /\ last_call = NoCall

\* the query the chain has reached
Newest == DOMAIN queries \cap {Len(queries)}

\* create_data_set called without imports, or with an empty list
PlainImports == {NoImports, {}}

NextQuery ==
    \/ \E n \in Clock, t \in RecordTypes, ks \in OneKey,
          save_to \in KnownDataSets :
            BeforeQueries /\ SaveMany(n, t, ks, None, save_to)
    \/ \E n \in Clock, data_set_name \in Names,
          parent_data_set \in KnownDataSets, imports_arg \in PlainImports :
            BeforeQueries
                /\ CreateDataSet(n, data_set_name, parent_data_set,
                                 imports_arg)
    \/ \E c \in CutoffTimes : BeforeQueries /\ SetCutoffTime(c)
    \/ \E a \in QueryArgs : queries = << >> /\ GetQuery(a[1], a[2])
    \/ \E q \in Newest, value \in WhereValues : Where(q, "record_id", value)
    \/ \E q \in Newest, attr \in Attrs : SortBy(q, attr)
    \/ \E q \in Newest, attr \in Attrs : SortByDescending(q, attr)
    \/ \E q \in Newest : AsIterable(q)

SpecQuery == Init /\ [][NextQuery]_vars

\* --------------------------------------------- non-temporal data sources
\* Writes through a data source whose non_temporal flag the caller sets.
NextNonTemporal ==
    \/ \E b \in BOOLEAN : SetNonTemporal(b)
    \/ Spin
    \/ \E n \in Positions, t \in RecordTypes, ks \in KeySeqs,
          pre \in PreValues, save_to \in KnownDataSets :
            SaveMany(n, t, ks, pre, save_to)
    \/ \E n \in Positions, data_set_name \in Names,
          parent_data_set \in KnownDataSets, imports_arg \in ImportArgs :
            CreateDataSet(n, data_set_name, parent_data_set, imports_arg)

SpecNonTemporal == Init /\ [][NextNonTemporal]_vars

\* ------------------------------------------- writes and the id order test
\* Writes of successive data source objects on one database, the caller
\* holding the dataset ids earlier objects returned or looking datasets up
\* by name, and the generator free to be set back: the ids a new object
\* allocates can be below a dataset id.
NextOrder ==
    \/ NewInstance
    \/ Spin
    \/ \E n \in Positions, t \in RecordTypes, ks \in KeySeqs,
          save_to \in HeldDataSets :
            SaveMany(n, t, ks, None, save_to)
    \/ \E n \in Positions, key \in Keys, delete_in \in HeldDataSets :
            Delete(n, key, delete_in)
    \/ \E n \in Positions, data_set_name \in Names,
          parent_data_set \in HeldDataSets, imports_arg \in PlainImports :
            CreateDataSet(n, data_set_name, parent_data_set, imports_arg)
    \/ \E data_set_name \in Names, load_from \in HeldDataSets :
            GetDataSetOrNone(data_set_name, load_from)

SpecOrder == Init /\ [][NextOrder]_vars

\* ------------------------------------------------------------- delete_db
\* InstanceType without Empty, which init() refuses
InstanceTypes == {"PROD", "UAT", "DEV", "USER", "TEST"}

\* every instance type may be dropped
Droppable_All == InstanceTypes

\* [InstanceType.DEV, InstanceType.USER, InstanceType.TEST]
Droppable == {"DEV", "USER", "TEST"}

\* delete_db, __client and __db set by init(): what it raises, if anything
DeleteDbOutcome ==
    IF readonly THEN "ReadOnly"
    ELSE IF instance_type \in Droppable THEN "ok"
    ELSE "NotPermitted"

\* what the last delete_db call found and did, n the calls made so far
Drop(st) ==
    [st |-> st, readonly |-> readonly, type |-> instance_type,
     n |-> dropped.n + 1]

\* MongoDataSource.delete_db: drop_database removes every collection; the
\* caches of the object are left as they are
DeleteDb ==
    /\ pc = "idle"
    /\ dropped.n < MaxDrops
    /\ store' = IF DeleteDbOutcome = "ok" THEN {} ELSE store
    /\ dropped' = Drop(DeleteDbOutcome)
    /\ UNCHANGED << non_temporal, instance_type, prev_object_id, returned,
                    log, data_set_dict, data_set_parent_dict,
                    data_set_detail_dict, import_dict, last_saved, assigned,
                    deleted, data_set_imports, foreign, flagVars, callVars,
                    threadVars, queryVars, keyVars >>

\* init() with any of the instance types
InitDb == Constructed /\ instance_type \in InstanceTypes /\ NoKeys

NextDb ==
    \/ \E b \in BOOLEAN : SetReadonly(b)
    \/ \E n \in Clock, t \in RecordTypes, ks \in OneKey,
          save_to \in KnownDataSets :
            SaveMany(n, t, ks, None, save_to)
    \/ \E n \in Clock, data_set_name \in Names,
          parent_data_set \in KnownDataSets, imports_arg \in PlainImports :
            CreateDataSet(n, data_set_name, parent_data_set, imports_arg)
    \/ DeleteDb

SpecDb == InitDb /\ [][NextDb]_vars

\* ------------------------------------------------------------------ keys
\* A key element: its kind and its value, held in the field of that kind
\* (s a string or enum member name, b a bool, f the integer fields of an
\* int, date or time, sub the elements of an embedded key).
Element(kind, s, b, f, sub) ==
    [kind |-> kind, s |-> s, b |-> b, f |-> f, sub |-> sub]

StrElement(s) == Element("str", s, FALSE, << >>, << >>)
BoolElement(b) == Element("bool", "", b, << >>, << >>)
IntElement(i) == Element("int", "", FALSE, << i >>, << >>)
\* dt.date(year, month, day)
DateElement(f) == Element("date", "", FALSE, f, << >>)
\* dt.time(hour, minute, second, microsecond)
TimeElement(f) == Element("time", "", FALSE, f, << >>)
EnumElement(name) == Element("enum", name, FALSE, << >>, << >>)
KeyElement(elements) == Element("key", "", FALSE, << >>, elements)

\* date_ext.date_to_iso_int
date_to_iso_int(value) == value[1] * 10000 + value[2] * 100 + value[3]

\* date_ext.time_to_iso_int: the microseconds are multiplied by 1000
time_to_iso_int(value) ==
    value[1] * 10000000 + value[2] * 100000 + value[3] * 1000
        + value[4] * 1000

Rest(value, unit) == value - (value \div unit) * unit

\* date_ext.iso_int_to_date, before dt.date(year, month, day)
iso_int_to_date(value) ==
    << value \div 10000, Rest(value, 10000) \div 100,
       Rest(Rest(value, 10000), 100) >>

\* date_ext.iso_int_to_time, before dt.time(hour, minute, second,
\* millisecond * 1000)
iso_int_to_time(value) ==
    << value \div 10000000, Rest(value, 10000000) \div 100000,
       Rest(Rest(value, 10000000), 100000) \div 1000,
       Rest(Rest(Rest(value, 10000000), 100000), 1000) * 1000 >>

\* the ranges dt.date and dt.time accept (the length of the month is not
\* followed)
ValidDate(f) == f[1] \in 1..9999 /\ f[2] \in 1..12 /\ f[3] \in 1..31

ValidTime(f) ==
    f[1] \in 0..23 /\ f[2] \in 0..59 /\ f[3] \in 0..59 /\ f[4] \in 0..999999

\* the key elements the samples are built from
Strings == {"abc", "def"}
Indexes == {0, 123}
Dates == {<< 2003, 5, 1 >>, << 2019, 12, 31 >>}
Times == {<< 0, 0, 0, 0 >>, << 10, 15, 30, 0 >>, << 10, 15, 30, 5000 >>}
SampleEnum == {"EnumValue1", "EnumValue2"}

\* str(n) of an int, and int(token) of the numerals that can occur
Numerals ==
    Indexes \cup {date_to_iso_int(d) : d \in Dates}
        \cup {time_to_iso_int(t) : t \in Times}

PyStr(n) == ToString(n)

PyInt(token) == CHOOSE n \in Numerals : PyStr(n) = token

\* str.capitalize() of the tokens of a bool
Capitalize(token) ==
    IF token = "true" THEN "True"
    ELSE IF token = "false" THEN "False"
    ELSE token

\* bool(s) of a string: true unless the string is empty
PyBool(s) == s # ""

RECURSIVE Flatten(_)
Flatten(seqs) ==
    IF seqs = << >> THEN << >> ELSE Head(seqs) \o Flatten(Tail(seqs))

\* Key.value: the tokens of the elements joined by ';'.  A string of tokens
\* is held as the sequence of its tokens, the empty string as << "" >>: the
\* value of an embedded key is one token to the join and several to split.
RECURSIVE Value(_)
\* Key.get_key_token of an element that is set and valid
get_key_token(e) ==
    CASE e.kind = "str" -> << e.s >>
      [] e.kind = "date" -> << PyStr(date_to_iso_int(e.f)) >>
      [] e.kind = "time" -> << PyStr(time_to_iso_int(e.f)) >>
      [] e.kind = "bool" -> << IF e.b THEN "true" ELSE "false" >>
      [] e.kind = "int" -> << PyStr(e.f[1]) >>
      [] e.kind = "key" -> Value(e.sub)
      [] e.kind = "enum" -> << e.s >>

Value(elements) ==
    IF elements = << >> THEN << "" >>
    ELSE Flatten([i \in DOMAIN elements |-> get_key_token(elements[i])])

\* what __populate_from_string gives: its outcome, the elements set so far
\* and the token index
Populated(st, elements, token_index) ==
    [st |-> st, elements |-> elements, token_index |-> token_index]

\* a date or time element of the fields f, if dt.date / dt.time accepts them
Checked(valid, e) == IF valid THEN << e >> ELSE << >>

\* the value of a token by member type; << >> when the constructor raises
FromToken(kind, token) ==
    CASE kind = "str" -> << StrElement(token) >>
      [] kind = "bool" -> << BoolElement(PyBool(Capitalize(token))) >>
      [] kind = "int" -> << IntElement(PyInt(token)) >>
      [] kind = "date" ->
            Checked(ValidDate(iso_int_to_date(PyInt(token))),
                    DateElement(iso_int_to_date(PyInt(token))))
      [] kind = "time" ->
            Checked(ValidTime(iso_int_to_time(PyInt(token))),
                    TimeElement(iso_int_to_time(PyInt(token))))
      [] kind = "enum" -> << EnumElement(token) >>

RECURSIVE PopulateFrom(_, _, _)
RECURSIVE Slots(_, _, _, _, _)
\* the loop after the recursive call for an embedded key gave r
Embedded(slots, i, tokens, set, r) ==
    IF r.st # "ok" THEN Populated(r.st, set, r.token_index)
    ELSE Slots(slots, i + 1, tokens, r.token_index,
               Append(set, KeyElement(r.elements)))

\* the loop after a token was converted to v
Converted(slots, i, tokens, token_index, set, v) ==
    IF v = << >> THEN Populated("ValueError", set, token_index)
    ELSE Slots(slots, i + 1, tokens, token_index + 1, Append(set, v[1]))

\* the loop of __populate_from_string from slot i on
Slots(slots, i, tokens, token_index, set) ==
    IF i > Len(slots) THEN Populated("ok", set, token_index)
    ELSE IF slots[i].kind = "key"
    THEN Embedded(slots, i, tokens, set,
                  PopulateFrom(slots[i].sub, tokens, token_index))
    ELSE IF token_index >= Len(tokens)
    THEN Populated("IndexError", set, token_index)
    ELSE IF tokens[token_index + 1] = ""
    THEN Populated("EmptyToken", set, token_index)
    ELSE Converted(slots, i, tokens, token_index, set,
                   FromToken(slots[i].kind, tokens[token_index + 1]))

\* Key.__populate_from_string; slots gives the member types
PopulateFrom(slots, tokens, token_index) ==
    IF slots = << >>
    THEN IF tokens # << "" >> THEN Populated("NotSingleton", << >>, token_index)
         ELSE Populated("ok", << >>, 1)
    ELSE IF Len(tokens) - token_index < Len(slots)
    THEN Populated("TooFewTokens", << >>, token_index)
    ELSE Slots(slots, 1, tokens, token_index, << >>)

\* populate_from_string after __populate_from_string gave r
Counted(tokens, r) ==
    IF r.st = "ok" /\ Len(tokens) # r.token_index
    THEN Populated("TokenCount", r.elements, r.token_index)
    ELSE r

\* Key.populate_from_string(value) on a fresh key of the type of slots
populate_from_string(slots, value) ==
    Counted(value, PopulateFrom(slots, value, 0))

\* the key elements of the sample records: one of every kind, the
\* composite key of the tests, a singleton
KeySamples ==
    {<< BoolElement(b), IntElement(i), DateElement(d), TimeElement(t),
        EnumElement(e) >> :
        b \in BOOLEAN, i \in Indexes, d \in Dates, t \in Times,
        e \in SampleEnum}
      \cup {<< StrElement(x), KeyElement(<< StrElement(y), IntElement(i) >>),
              StrElement(x) >> : x \in Strings, y \in Strings, i \in Indexes}
      \cup {<< >>}

\* key = r.to_key(); key.value
ToKey ==
    /\ the_key = NoKey
    /\ the_key' = [st |-> "ok", elements |-> rec_key, value |-> Value(rec_key)]
    /\ UNCHANGED << rec_key, populated, storeVars, flagVars, callVars,
                    prev_object_id, returned, log, threadVars, queryVars,
                    sourceVars >>

\* the key as populate_from_string left it (r) and its value, if all of its
\* elements are set
KeyOf(r) ==
    [st |-> r.st, elements |-> r.elements,
     value |-> IF r.st = "ok" THEN Value(r.elements) ELSE << >>]

\* key = KeyType(); key.populate_from_string(key_value)
PopulateFromString ==
    /\ the_key.st = "ok"
    /\ populated = NoKey
    /\ populated' = KeyOf(populate_from_string(the_key.elements, the_key.value))
    /\ UNCHANGED << rec_key, the_key, storeVars, flagVars, callVars,
                    prev_object_id, returned, log, threadVars, queryVars,
                    sourceVars >>

InitKey ==
    /\ Constructed
    /\ instance_type = "TEST"
    /\ rec_key \in KeySamples
    /\ the_key = NoKey
    /\ populated = NoKey

NextKey == ToKey \/ PopulateFromString

SpecKey == InitKey /\ [][NextKey]_vars

\* ----------------------------------------------------------------- claims
StrictlyIncreasing(s) == \A i, j \in DOMAIN s : i < j => s[i] < s[j]

\* C6: for calls of create_ordered_object_id made one after another on one
\* instance (directly or inside save_many, delete, create_data_set), whatever
\* the native generator produces, each returned id is strictly greater than
\* every id the instance returned before.
C6_ReturnedStrictlyIncreasing == StrictlyIncreasing(returned)

\* C6 witness: two ids were returned, then the generator, set back, produced
\* an id below the previous one, and that id was not returned.
C6_Witness ==
    /\ Len(returned) >= 2
    /\ pc = "spin"
    /\ result < prev_object_id

\* C7: when the native id is less than or equal to the previous id, every
\* retry draws a fresh native id: a call that is inside the retry loop after
\* retry_count retries has called ObjectId() retry_count + 1 times.
C7_RetryDrawsFresh == pc = "spin" => draws = retry_count + 1

\* C8: a call appends nothing to the log when its first native id is greater
\* than the previous one, and one warning per retry when retries are needed:
\* with no call inside the loop the log is empty, and a call that has made
\* retry_count retries has appended retry_count warnings.
C8_WarningPerRetry ==
    /\ pc = "idle" => log = << >>
    /\ pc = "spin" => Len(log) = retry_count

\* C9: with several threads calling create_ordered_object_id on one instance,
\* in every interleaving the returned ids are pairwise distinct, each return
\* is greater than every id returned before it and the previous-id slot
\* never moves backwards.
C9_CriticalSection ==
    [][/\ prev_object_id' >= prev_object_id
       /\ \A i \in DOMAIN returned' :
            i > Len(returned) =>
                \A j \in DOMAIN returned : returned[j] < returned'[i]]_vars

\* C10: while the data source is marked read-only create_ordered_object_id
\* returns no id and leaves the previous-id slot unchanged.
C10_ReadonlyRejectsAllocation ==
    [][readonly => /\ returned' = returned
                   /\ prev_object_id' = prev_object_id]_vars

\* C4: after save_many(type, records, D) has returned successfully every
\* record of the batch has id_ > D and data_set = D, whatever id_ and
\* data_set the caller had put on it.
C4_SavedIdAboveDataSet ==
    \A i \in DOMAIN last_saved.recs :
        /\ last_saved.recs[i].id_ > last_saved.ds
        /\ last_saved.recs[i].data_set = last_saved.ds

\* C4 witness: a batch saved into a dataset other than the root, by a caller
\* who had put the greatest id on its records as id_ and data_set.
C4_Witness ==
    /\ last_saved.recs # << >>
    /\ last_saved.ds # EmptyId
    /\ last_saved.pre = MaxId

\* C5: the ids save_many puts on the records of one call increase strictly
\* in input order, and every id put on a record by save_many, save_one or
\* delete is greater than every id any of them put on a record before.
C5_AssignedIncreasing ==
    /\ StrictlyIncreasing(assigned)
    /\ StrictlyIncreasing([i \in DOMAIN last_saved.recs |->
                                last_saved.recs[i].id_])

\* C5 witness: a batch of two records saved after two calls of delete, the
\* only documents of the store being those of the batch.
C5_Witness ==
    /\ Len(last_saved.recs) = 2
    /\ Len(assigned) = 4
    /\ assigned[4] = last_saved.recs[2].id_
    /\ Cardinality(store) = 2

\* the documents of records of BaseSample, deleted ones left out
Samples(docs) == {d \in docs : d.coll = "BaseSample" /\ d.t # "DeletedRecord"}

\* the document of the latest revision of key stored in data_set
LatestIn(key, data_set) ==
    CHOOSE e \in Samples(store) :
        /\ e.key = key
        /\ e.dataset = data_set
        /\ \A x \in Samples(store) :
                x.key = key /\ x.dataset = data_set => x.id <= e.id

\* a load that returned a record or null
Completes(r) == r.st \in {"found", "null"}

\* the last save_many that returned saved a record with this key, and
\* neither a cutoff nor a delete of the key in a dataset of the lookup list
\* l has come since
JustSaved(key, l) ==
    /\ \E i \in DOMAIN last_saved.recs : last_saved.recs[i].key = key
    /\ last_saved.ds \in l.list
    /\ cutoff_time = None
    /\ \A data_set \in l.list : << key, data_set >> \notin deleted

\* a load (r) of key from a dataset with lookup list l: it returns the
\* record just saved into a dataset of l, and no record of a dataset
\* outside l
SavedSeenBy(key, l, r) ==
    /\ l.st = "ok" /\ Completes(r) /\ JustSaved(key, l) =>
            r.st = "found" /\ r.doc = LatestIn(key, last_saved.ds)
    /\ r.st = "found" =>
            l.st = "ok" /\ r.doc.key = key /\ r.doc.dataset \in l.list

Returns(key, load_from, d) ==
    LoadOrNullByKey("BaseSample", key, load_from, Caches) =
        Loaded("found", d, Caches)

Qualifying(key, f) ==
    {d \in store : d.coll = "BaseSample" /\ d.key = key /\ PassesFinal(d, f)}

\* the first of docs by dataset id descending, then record id descending
NearestFirst(docs) ==
    CHOOSE d \in docs :
        \A e \in docs :
            \/ e.dataset < d.dataset
            \/ e.dataset = d.dataset /\ e.id <= d.id

\* a load (r) that returns gives the nearest qualifying record, or null when
\* there is none or it is a DeletedRecord
NearestWins(docs, r) ==
    Completes(r) =>
        IF docs = {} THEN r.st = "null"
        ELSE IF NearestFirst(docs).t = "DeletedRecord" THEN r.st = "null"
        ELSE r.st = "found" /\ r.doc = NearestFirst(docs)

\* C1: for every stored state, dataset D and key k, load_or_null_by_key(k, D)
\* returns the record that comes first, by dataset id descending and then
\* record id descending, among the records with key k whose dataset is in
\* the lookup list of D and whose id is within the cutoff of D, and null
\* when that record is a DeletedRecord or no record qualifies.
C1_NearestDataSetWins ==
    \A key \in Keys, load_from \in KnownDataSets :
        NearestWins(Qualifying(key, ApplyFinalConstraints(load_from, Caches)),
                    LoadOrNullByKey("BaseSample", key, load_from, Caches))

\* a load (r) of key returns null, or a live record of a dataset of the
\* lookup list l with a greater id than data_set
HiddenOrNewer(key, data_set, l, r) ==
    l.st = "ok" /\ data_set \in l.list /\ Completes(r) =>
        \/ r.st = "null"
        \/ \E d \in Samples(store) :
                d.key = key /\ d.dataset \in l.list /\ d.dataset > data_set

\* C2: after delete(k, D'), with no live record of k saved into D' since,
\* load_or_null_by_key(k, D) returns null for every dataset D whose lookup
\* list contains D', unless a live record of k exists in a dataset of the
\* lookup list with a greater id than D'.
C2_DeleteHides ==
    \A p \in deleted, load_from \in KnownDataSets :
        HiddenOrNewer(p[1], p[2], GetDataSetLookupList(load_from, Caches),
                      LoadOrNullByKey("BaseSample", p[1], load_from, Caches))

\* ------------------------------------------------------ the write gate
\* the DataSetDetail documents stored for data_set_id in its parent
DetailDocs(data_set_id) ==
    {d \in store : /\ d.coll = "DataSetDetail"
                   /\ d.key = data_set_id
                   /\ d.dataset = data_set_parent_dict[data_set_id]}

\* the detail of a dataset: the latest of them, or none
LatestOf(docs) ==
    IF docs = {} THEN NoDetail
    ELSE CHOOSE d \in docs : \A e \in docs : e.id <= d.id

StoredDetail(data_set_id) ==
    IF data_set_id \in DOMAIN data_set_parent_dict
    THEN LatestOf(DetailDocs(data_set_id))
    ELSE NoDetail

\* one of the four conditions under which a write to data_set_id is refused
Refused(data_set_id, detail) ==
    \/ readonly
    \/ cutoff_time # None
    \/ detail.read_only
    \/ detail.cutoff # None

\* the datasets this instance created or resolved by name, and the root
OwnDataSets == {EmptyId} \cup DOMAIN data_set_parent_dict

\* C11: the gate of save_many and delete raises for dataset D exactly when
\* the data source is readonly, D's DataSetDetail has read_only set, the
\* data source has a cutoff_time, or D's DataSetDetail has a cutoff_time; it
\* lets the write through when none of them holds.
C11_GateRaisesWhenRefused ==
    \A data_set_id \in OwnDataSets :
        CheckNotReadonly(data_set_id, Caches).st # "ok"
            <=> Refused(data_set_id, StoredDetail(data_set_id))

\* ------------------------------------------------------ lookup lists
\* the datasets create_data_set saved, and the root
Created == {EmptyId} \cup DOMAIN data_set_imports

\* the imports a dataset was saved with
ImportsOf(data_set_id) ==
    IF data_set_id \in DOMAIN data_set_imports
    THEN data_set_imports[data_set_id]
    ELSE {}

\* the datasets reachable from those of todo by following imports
RECURSIVE Reachable(_, _)
Reachable(seen, todo) ==
    IF todo = {} THEN seen
    ELSE Reachable(seen \cup todo,
                   UNION {ImportsOf(x) : x \in todo} \ (seen \cup todo))

\* every dataset reachable from data_set_id imports only datasets that were
\* saved before it
ImportsSaved(reachable) ==
    \A x \in reachable : \A y \in ImportsOf(x) : y \in Created /\ y < x

\* the call returns a list (l) and it is that set
ListIs(l, expected) == l.st = "ok" /\ l.list = expected

\* C12: for every saved dataset D, get_data_set_lookup_list(D) is the set of
\* D and every dataset reachable from D by following imports; for the root
\* it is the set holding the empty id alone.
C12_LookupListIsClosure ==
    \A data_set_id \in Created :
        ImportsSaved(Reachable({}, {data_set_id})) =>
            ListIs(GetDataSetLookupList(data_set_id, Caches),
                   Reachable({}, {data_set_id}))

\* the DataSet documents of the store
DataSetDocs == {d \in store : d.coll = "DataSet"}

C14_SelfImportRejected ==
    \A data_set_id \in DOMAIN data_set_imports :
        data_set_id \in data_set_imports[data_set_id] =>
            /\ data_set_id \notin DOMAIN import_dict
            /\ GetDataSetLookupList(data_set_id, Caches).st # "ok"

\* C14 witness: save_data_set has saved a dataset whose imports hold the id
\* the save gave it
C14_Witness ==
    \E data_set_id \in DOMAIN data_set_imports :
        /\ data_set_id \in data_set_imports[data_set_id]
        /\ data_set_id \in DOMAIN data_set_parent_dict

EarlierOf(a, b) ==
    IF a = None THEN b
    ELSE IF b = None THEN a
    ELSE IF a < b THEN a ELSE b

\* get_cutoff_time returns (g) that cutoff
CutoffIs(g, expected) == g.st = "ok" /\ g.cutoff = expected

\* C16: for every dataset D, get_cutoff_time(D) is the smaller of the data
\* source's cutoff_time and the cutoff_time of D's DataSetDetail, an unset or
\* missing one counting as no limit; it is None only when both are unset.
C16_CutoffIsMinimum ==
    \A data_set_id \in OwnDataSets :
        CutoffIs(GetCutoffTime(data_set_id, Caches),
                 EarlierOf(cutoff_time, StoredDetail(data_set_id).cutoff))

\* a load (r) that returns a record returns one below the cutoff
BelowCutoff(r, cutoff) == r.st = "found" /\ cutoff # None => r.doc.id < cutoff

\* C17: while the data source has cutoff c, no load returns a record whose
\* id is greater than or equal to c; load_or_null and load_or_null_by_key
\* both hide the record whose id equals c.
C17_NothingAtOrAfterCutoff ==
    /\ \A key \in Keys, load_from \in KnownDataSets :
            BelowCutoff(LoadOrNullByKey("BaseSample", key, load_from, Caches),
                        cutoff_time)
    /\ \A id_ \in HeldIds :
            BelowCutoff(LoadOrNull(id_, "BaseSample", "BaseSample", Caches),
                        cutoff_time)

\* what a load returns, the caches it leaves aside
Outcome(r) == [st |-> r.st, doc |-> r.doc]

\* what load_or_null_by_key returns for every key and every dataset held
LoadsByKey ==
    [key \in Keys, load_from \in HeldDataSets |->
        Outcome(LoadOrNullByKey("BaseSample", key, load_from, Caches))]

ImportsCutoffOf(detail) == detail.imports_cutoff

\* a load from load_from (r) that returns a record returns one of load_from
\* itself or one saved before the imports cutoff
WithinImportsCutoff(load_from, t, r) ==
    r.st = "found" /\ t # None =>
        \/ r.doc.dataset = load_from
        \/ r.doc.id < t

\* C19: when the DataSetDetail of dataset D sets imports_cutoff_time t, a
\* load from D returns no record of an imported dataset whose id is greater
\* than or equal to t; the records stored in D itself are not affected.
C19_ImportsCutoffHides ==
    \A key \in Keys, load_from \in DOMAIN data_set_parent_dict :
        WithinImportsCutoff(load_from,
                            ImportsCutoffOf(StoredDetail(load_from)),
                            LoadOrNullByKey("BaseSample", key, load_from,
                                            Caches))

\* ------------------------------------------------------- load by id
\* what the contract of load_or_null gives for a stored document d asked
\* for as type_, cutoff being the effective cutoff of d's own dataset
ContractFor(d, type_, cutoff) ==
    IF d.t = "DeletedRecord" THEN Outcome(Loaded("null", NoDoc, Caches))
    ELSE IF cutoff # None /\ d.id >= cutoff
    THEN Outcome(Loaded("null", NoDoc, Caches))
    ELSE IF ~IsInstance(d.t, type_)
    THEN Outcome(Loaded("TypeMismatch", NoDoc, Caches))
    ELSE Outcome(Loaded("found", d, Caches))

\* and for the documents of the collection that have the id
ContractOf(docs, type_) ==
    IF docs = {} THEN Outcome(Loaded("null", NoDoc, Caches))
    ELSE ContractFor(CHOOSE d \in docs : TRUE, type_,
                     EarlierOf(cutoff_time,
                               StoredDetail((CHOOSE d \in docs : TRUE).dataset)
                                   .cutoff))

\* C20: load_or_null(id, T) returns null when no document has the id, when
\* the document is a DeletedRecord or when the id is at or after the
\* effective cutoff of the record's dataset; it raises when the stored type
\* is not a subtype of T; otherwise it returns the record with that id.
C20_LoadOrNullContract ==
    \A id_ \in ObjectIds, lt \in LoadTypes :
        Outcome(LoadOrNull(id_, lt[1], lt[2], Caches))
            = ContractOf({d \in store : d.coll = lt[1] /\ d.id = id_}, lt[2])

\* ----------------------------------------------------------------- queries
\* the documents of a query's collection that are visible from its dataset:
\* stored in a dataset of the import closure, not after the cutoff
VisibleTo(query) ==
    {d \in store :
        /\ d.coll = query.collection
        /\ d.dataset \in Reachable({}, {query.load_from})
        /\ (cutoff_time # None => d.id <= cutoff_time)}

\* the latest of the revisions docs hold of key: nearest dataset first, then
\* greatest id
LatestRevisions(docs) ==
    {d \in docs :
        \A e \in docs :
            e.key = d.key =>
                \/ e.dataset < d.dataset
                \/ (e.dataset = d.dataset /\ e.id <= d.id)}

\* the where clauses of a query
WhereStages(pipeline) ==
    {pipeline[n] : n \in {m \in DOMAIN pipeline :
                            /\ pipeline[m].op = "$match"
                            /\ pipeline[m].on \in {"RecordId", "RecordIndex"}}}

\* the ids of the records a query has to yield
ExpectedIds(query) ==
    {d.id : d \in {e \in LatestRevisions(VisibleTo(query)) :
                        /\ IsInstance(e.t, query.type_)
                        /\ \A stage \in WhereStages(query.pipeline) :
                                Passes(e, stage)}}

\* C21: get_query(T, D), called with the type first and the dataset second,
\* gives a query, and the first iteration of a query built from get_query by
\* where and sort_by clauses ends normally and yields exactly the latest
\* visible revision (nearest dataset, then greatest id) of every key whose
\* latest visible revision has type T and satisfies the where clauses.
C21_QueryYieldsLatest ==
    /\ (last_call.op = "get_query" /\ last_call.args[1].class # ""
            => last_call.st = "ok")
    /\ (iterated.q # 0 /\ iterated.runs = 1
            => /\ iterated.st = "ok"
               /\ Range(iterated.out) = ExpectedIds(queries[iterated.q]))

\* C22: iterating a query does not change it and can be repeated: the
\* pipeline of the query is the same after as_iterable as before, and a
\* second iteration of the same query over the same store ends as the first
\* did and yields the same sequence.
C22_IterationLeavesQuery ==
    /\ (iterated.q # 0 => iterated.after = iterated.before)
    /\ (iterated.first.st # ""
            => /\ iterated.st = iterated.first.st
               /\ iterated.out = iterated.first.out)

\* C23: where, sort_by and sort_by_descending each return a new query object
\* and leave the pipeline of the query they were called on as it was, also
\* when that query already has a sort stage.
C23_BuilderLeavesReceiver ==
    last_call.op \in {"where", "sort_by", "sort_by_descending"}
        /\ last_call.st = "ok"
        => last_call.made = 1 /\ last_call.after = last_call.before

\* the pipeline had a sort stage
HadSort(pipeline) == \E n \in DOMAIN pipeline : pipeline[n].op = "$sort"

\* C24: where called on a query that has a sort stage raises, makes no query
\* and leaves the receiver's pipeline as it was; where called on a query
\* without a sort stage does not raise.
C24_WhereAfterSortRaises ==
    last_call.op = "where"
        => /\ last_call.st = "Exception" <=> HadSort(last_call.before)
           /\ last_call.st # "Exception" => last_call.st = "ok"
           /\ last_call.st = "Exception"
                => last_call.made = 0 /\ last_call.after = last_call.before

\* C24 witness: where has been called on a query with a sort stage and has
\* raised
C24_Witness ==
    /\ last_call.op = "where"
    /\ HadSort(last_call.before)
    /\ last_call.st = "Exception"
    /\ Len(queries) = last_call.count

\* the where calls of a chain of builder calls, and its sort calls
WhereCalls(calls) == SelectSeq(calls, LAMBDA c : c.op = "where")

SortCalls(calls) == SelectSeq(calls, LAMBDA c : c.op # "where")

\* the fields of the first n sort calls with their directions, in call order
RECURSIVE FieldsOf(_, _)
FieldsOf(calls, n) ==
    IF n = 0 THEN << >>
    ELSE SetItem(FieldsOf(calls, n - 1), to_pascal_case[calls[n].attr],
                 calls[n].value)

\* the pipeline a chain of calls on get_query(..., type_) stands for: the
\* type stage, the where stages in call order, then one sort stage if a sort
\* call was made
PipelineOf(type_, wheres, sorts) ==
    << [op |-> "$match", on |-> "_t", t |-> type_, ids |-> {},
        sorts |-> << >>] >>
        \o [n \in 1..Len(wheres) |->
                [op |-> "$match", on |-> to_pascal_case[wheres[n].attr],
                 t |-> "", ids |-> {wheres[n].value}, sorts |-> << >>]]
        \o (IF sorts = << >> THEN << >>
            ELSE << [op |-> "$sort", on |-> "", t |-> "", ids |-> {},
                     sorts |-> FieldsOf(sorts, Len(sorts))] >>)

\* C25: the pipeline of every query made by a chain of where, sort_by and
\* sort_by_descending calls that did not raise holds the where stages of the
\* chain first, in call order, and then at most one sort stage whose fields
\* are those of the chain's sort calls in call order, the first the primary.
C25_PipelineFollowsChain ==
    \A q \in DOMAIN queries :
        Resolved(queries[q].pipeline, sort_dicts) =
            PipelineOf(queries[q].type_, WhereCalls(chain[q]),
                       SortCalls(chain[q]))

\* the places of the stages of a pipeline that test the field `on`
StagesOn(pipeline, fields) ==
    {n \in DOMAIN pipeline : pipeline[n].on \in fields}

SortStages(pipeline) == {n \in DOMAIN pipeline : pipeline[n].op = "$sort"}

\* C26: the pipeline as_iterable runs to discover keys holds the
\* final-constraint stages exactly once (the dataset stage, and the cutoff
\* stage when there is a cutoff), after every where stage and before the
\* sort stage, whether or not the query has a sort stage.
C26_FinalConstraintsOnce ==
    iterated.q # 0 /\ iterated.ran # << >>
        => /\ Cardinality(StagesOn(iterated.ran, {"_dataset"})) = 1
           /\ Cardinality(StagesOn(iterated.ran, {"_id"})) =
                (IF cutoff_time = None THEN 0 ELSE 1)
           /\ \A n \in StagesOn(iterated.ran, {"_dataset", "_id"}) :
                /\ \A m \in StagesOn(iterated.ran,
                                     {"RecordId", "RecordIndex"}) : m < n
                /\ \A m \in SortStages(iterated.ran) : n < m

\* ----------------------------------------------------- datasets by name
\* the datasets this data source object saved under the name: the DataSet
\* document of such a dataset is in its parent, has its imports and was
\* inserted after its id was made
SavedAs(data_set_name) ==
    {x \in DOMAIN data_set_parent_dict :
        \E d \in DataSetDocs :
            /\ d.key = data_set_name
            /\ d.dataset = data_set_parent_dict[x]
            /\ d.imports = ImportsOf(x)
            /\ d.id > x}

\* the latest of them whose record is visible from load_from, or None
LatestNamed(named, visible) ==
    IF \E x \in named : data_set_parent_dict[x] \in visible
    THEN CHOOSE x \in named :
            /\ data_set_parent_dict[x] \in visible
            /\ \A y \in named : data_set_parent_dict[y] \in visible => y <= x
    ELSE None

\* C28: while no cutoff is set, get_data_set_or_none(name, parent) returns
\* the id of the latest dataset saved under that name whose record is visible
\* from parent, or null when there is none, whatever was resolved or created
\* before under another parent.
C28_DataSetByNameAndParent ==
    cutoff_time = None =>
        \A data_set_name \in Names, load_from \in KnownDataSets :
            DataSetOrNone(data_set_name, load_from, Caches) =
                [st |-> "ok",
                 id |-> LatestNamed(SavedAs(data_set_name),
                                    Reachable({}, {load_from}))]

\* C29: get_data_set_lookup_list(D) raises, returning no list, for every
\* dataset D whose record is stored in a dataset other than root.
C29_OnlyRootDataSetsListed ==
    \A data_set_id \in DOMAIN data_set_parent_dict :
        data_set_parent_dict[data_set_id] # EmptyId =>
            GetDataSetLookupList(data_set_id, Caches).st # "ok"

\* C30: a dataset that create_data_set makes without an imports argument is
\* saved with an imports list that does not hold its parent, and its lookup
\* list does not hold the parent either: the parent's records are visible
\* from it only when the parent is passed in imports.
C30_ParentNotImportedByDefault ==
    [][\A n \in Positions, data_set_name \in Names,
          parent_data_set \in KnownDataSets :
            /\ data_set_imports' # data_set_imports
            /\ CreateDataSet(n, data_set_name, parent_data_set, NoImports)
            => \A x \in DOMAIN data_set_imports' \ DOMAIN data_set_imports :
                    /\ parent_data_set \notin data_set_imports'[x]
                    /\ parent_data_set \notin import_dict'[x]]_vars

\* the documents of docs that share collection, dataset and key with d
SameKeyIn(docs, d) ==
    {x \in docs :
        x.coll = d.coll /\ x.dataset = d.dataset /\ x.key = d.key}

\* C31: while the data source is non-temporal, a save_many of samples
\* leaves exactly one stored document per key in the target dataset: the
\* documents it inserts replace the earlier ones with the same key in that
\* dataset (and each other).
C31_NonTemporalReplacesByKey ==
    [][non_temporal =>
        \A d \in Samples(store' \ store) :
            Cardinality(SameKeyIn(store', d)) = 1]_vars

\* C32: the store is append-only.  Whatever save_many, delete,
\* create_data_set or load runs, every document stored before the call is
\* stored after it with the same id, dataset, key and fields, and a document
\* the call adds for a key that already has documents in that dataset has an
\* id greater than theirs.
C32_StoreIsAppendOnly ==
    [][/\ store \subseteq store'
       /\ \A d \in store' \ store :
            \A e \in SameKeyIn(store, d) : d.id > e.id]_vars

\* a key has been saved twice into one dataset: both revisions are stored
C32_Witness ==
    \E d \in Samples(store) : Cardinality(SameKeyIn(store, d)) > 1

\* the ids create_ordered_object_id returned during the step
ReturnedNow == {returned'[i] : i \in (Len(returned) + 1)..Len(returned')}

\* C33: every document a write adds has an id that is set and strictly
\* greater than the id of the dataset it is stored in, and a write for which
\* an allocated id is not greater than the target dataset adds nothing.
C33_DocumentIdAboveDataSet ==
    [][\A d \in store' \ store :
            /\ d.id # EmptyId
            /\ d.id > d.dataset
            /\ \A x \in ReturnedNow : x > d.dataset]_vars

\* a save_many was rejected by the order test (the id it drew sits on no
\* record) in a database that holds documents in a dataset other than the
\* root
C33_Witness ==
    /\ \E i \in DOMAIN returned : returned[i] \notin Range(assigned)
    /\ \E d \in store : d.dataset # EmptyId

\* C34: delete_db drops the database, leaving no document, exactly when the
\* data source is not read-only and its instance type is DEV, USER or TEST;
\* with the readonly flag set, or with instance type PROD or UAT, it raises
\* and every document stays.  No other call removes a document.
C34_DeleteDbOnlyWhereAllowed ==
    [][IF dropped' = dropped THEN store \subseteq store'
       ELSE IF ~readonly /\ instance_type \in {"DEV", "USER", "TEST"}
       THEN dropped'.st = "ok" /\ store' = {}
       ELSE dropped'.st # "ok" /\ store' = store]_vars

\* delete_db was refused for the instance type of a database that holds
\* documents
C34_Witness ==
    /\ dropped.st = "NotPermitted"
    /\ dropped.type \in {"PROD", "UAT"}
    /\ store # {}

\* C35: the key string round-trips.  A fresh key populated from
\* r.to_key().value has every element equal to that of r.to_key() and the
\* same value string.
C35_KeyStringRoundTrips ==
    populated # NoKey =>
        /\ populated.st = "ok"
        /\ populated.elements = the_key.elements
        /\ populated.value = the_key.value

\* C36: once a DataSetDetail with read_only or cutoff_time set is stored
\* for dataset D, the gate of save_many and delete refuses every write to D
\* through this instance, whatever the instance read or wrote before.
C36_StoredDetailRefusesWrites ==
    \A data_set_id \in OwnDataSets :
        (StoredDetail(data_set_id).read_only
            \/ StoredDetail(data_set_id).cutoff # None)
                => CheckNotReadonly(data_set_id, Caches).st # "ok"

\* the keys of the records an iteration yielded
YieldedKeys(out) == {d.key : d \in {e \in store : e.id \in Range(out)}}

\* the keys a query has a record to yield for
ExpectedKeys(query) ==
    {d.key : d \in {e \in store : e.id \in ExpectedIds(query)}}

\* C37: an iteration yields a record for every key that has one to yield,
\* however the keys fall into batches: no batch, with or without a record
\* of its own, ends the iteration before the keys after it are yielded.
C37_EveryKeyYielded ==
    iterated.q # 0 /\ iterated.runs = 1
        => ExpectedKeys(queries[iterated.q]) \subseteq YieldedKeys(iterated.out)

\* the record the iteration yielded for key, None if it yielded none
YieldedFor(key, out) ==
    IF key \in YieldedKeys(out)
    THEN CHOOSE x \in Range(out) :
            \E d \in store : d.id = x /\ d.key = key
    ELSE None

\* the record of type_ a point load (r) returned, None if it returned none
LoadedOf(type_, r) ==
    IF r.st = "found" /\ IsInstance(r.doc.t, type_) THEN r.doc.id ELSE None

\* C38: a query without where clauses and load_or_null_by_key agree on the
\* current revision of every key: the first iteration of the query for type
\* T over dataset D yields for key k the record that
\* load_or_null_by_key(k, D) returns when that is a record of type T, and no
\* record for k otherwise.
C38_QueryAgreesWithLoad ==
    iterated.q # 0 /\ iterated.runs = 1
        /\ WhereStages(queries[iterated.q].pipeline) = {}
        => \A key \in Keys :
            YieldedFor(key, iterated.out) =
                LoadedOf(queries[iterated.q].type_,
                         LoadOrNullByKey(queries[iterated.q].collection, key,
                                         queries[iterated.q].load_from,
                                         Caches))

\* what a lookup list call and a cutoff call return, the caches aside
ListOutcome(l) == [st |-> l.st, list |-> l.list]

CutoffOutcome(g) == [st |-> g.st, cutoff |-> g.cutoff]

\* what this instance answers for dataset data_set_id: its lookup list, its
\* cutoff, the load of every key from it, and whether the gate of save_many
\* lets a write to it through
Answers(data_set_id) ==
    [list |-> ListOutcome(GetDataSetLookupList(data_set_id, Caches)),
     cutoff |-> CutoffOutcome(GetCutoffTime(data_set_id, Caches)),
     loads |-> [key \in Keys |->
                    Outcome(LoadOrNullByKey("BaseSample", key, data_set_id,
                                            Caches))],
     gate |-> CheckNotReadonly(data_set_id, Caches).st]

\* C39: memoization is transparent.  For every dataset this instance
\* created, a new instance on the same database, its caches empty, answers
\* get_data_set_lookup_list, get_cutoff_time, load_or_null_by_key and the
\* gate of save_many as this instance does.
C39_ColdInstanceAnswersAsWarm ==
    [][AsConstructed' /\ ~AsConstructed =>
            \A data_set_id \in DOMAIN import_dict :
                Answers(data_set_id)' = Answers(data_set_id)]_vars

\* C40: a delete(key, D) that passes the read-only gate adds one document
\* and touches no other: a DeletedRecord of that key in dataset D, under an
\* id no document had, in the collection of the key's record type.
C40_DeleteInsertsOneTombstone ==
    [][\A p \in deleted' \ deleted :
            \E d \in store' \ store :
                /\ d.t = "DeletedRecord"
                /\ d.coll = RecordTypeOf("BaseSample")
                /\ d.key = p[1]
                /\ d.dataset = p[2]
                /\ store' = store \cup {d}]_vars

====
